---- MODULE Spec2Model ----
(***************************************************************************)
(* A model of dictconfig's resolve() (src/dictconfig/_resolve.py): the     *)
(* configuration tree builder, the memoised and cycle-safe resolution of   *)
(* leaf nodes, the reference resolver and the parser registry.             *)
(*                                                                         *)
(* Python values are tagged records [k, v].  A Python dict is a function   *)
(* whose DOMAIN is its key set, so that `"nullable" in schema` is          *)
(* "nullable" \in DOMAIN schema.  A string is a sequence of tokens: a      *)
(* decimal numeral, the text " + ", a word, or a placeholder ${ path }.    *)
(***************************************************************************)
EXTENDS Integers, Sequences, FiniteSets, TLC

VARIABLES
    raw_cfg,             \* argument of resolve(): the raw configuration
    schema,              \* argument of resolve(): the schema
    external_variables,  \* argument of resolve(): a Python dict, or NoArg for None
    override_parsers,    \* argument of resolve(): a Python dict, or NoArg for None
    schema_validator,    \* argument of resolve(): DefaultValidator, or NoArg for None
    order,               \* iteration order of the keys of every dict and set
    pc,                  \* position inside resolve()
    parsers,             \* the local `parsers` of resolve()
    root,                \* the configuration tree (NoTree before it is built)
    resolved,            \* keypath of a leaf |-> its _resolved cell
    stack,               \* the call stack of the .resolve() methods
    ret,                 \* the value or exception handed to the caller's frame
    outcome,             \* what resolve() returned or raised
    parser_calls,        \* keypath of a leaf |-> how often a parser ran for it
    calls,               \* number of resolve() calls made so far
    prev,                \* the outcome of the previous resolve() call
    plan,                \* how the caller changes the arguments of a second call
    reads,               \* keypath of a leaf |-> the values its .resolve() returned
    steps,               \* number of steps root.resolve() has taken
    culprit,             \* the leaves in whose .resolve() an exception arose, and why
    registry             \* the dict DEFAULT_PARSERS of the module, as it is now

vars == <<raw_cfg, schema, external_variables, override_parsers,
          schema_validator, order, pc, parsers, root, resolved, stack, ret,
          outcome, parser_calls, calls, prev, plan, reads, steps, culprit,
          registry>>

(***************************************************************************)
(* Bounds of the model.                                                    *)
(***************************************************************************)
MaxNum == 1
MaxRefs == 2

(***************************************************************************)
(* Python values.                                                          *)
(***************************************************************************)
None == [k |-> "none", v |-> 0]
IntV(n) == [k |-> "int", v |-> n]
FloatV(n) == [k |-> "float", v |-> n]
BoolV(b) == [k |-> "bool", v |-> b]
\* the date numbered d, and the datetime at its midnight
DateV(d) == [k |-> "date", v |-> d]
DateTimeV(d) == [k |-> "datetime", v |-> d]
StrV(toks) == [k |-> "str", v |-> toks]
DictV(f) == [k |-> "dict", v |-> f]
ListV(s) == [k |-> "list", v |-> s]

EmptyDict == <<>>

\* tokens of a string
Num(n) == [k |-> "num", v |-> n]
Plus == [k |-> "op", v |-> "+"]
Txt(w) == [k |-> "txt", v |-> w]
\* the numeral of a float, "n.0"
Flt(n) == [k |-> "flt", v |-> n]
\* the ISO form of a date and of a datetime at midnight
Iso(d) == [k |-> "iso", v |-> d]
IsoT(d) == [k |-> "isot", v |-> d]
Repr(val) == [k |-> "repr", v |-> val]
\* ${ path } with l blanks before and r blanks after the dotted path
Ph(path, l, r) == [k |-> "ph", v |-> [path |-> path, l |-> l, r |-> r]]

\* components of a dotted path as written: a name, or a run of digits
Name(s) == [k |-> "name", v |-> s]
Digits(n) == [k |-> "digits", v |-> n]

\* segments of a keypath and components of an exploded path: str or int;
\* lp and rp count the blanks a component carries around its text
Key(s) == [k |-> "str", v |-> s, lp |-> 0, rp |-> 0]
Idx(i) == [k |-> "int", v |-> i, lp |-> 0, rp |-> 0]

NoArg == [k |-> "noarg", v |-> 0]
\* the default of the parameter schema_validator of resolve()
DefaultValidator == [k |-> "callable", v |-> "validate_schema"]
NoTree == [k |-> "notree"]
NoRet == [t |-> "none"]
Value(v) == [t |-> "value", v |-> v]
Exc(e) == [t |-> "exc", e |-> e]

Max(a, b) == IF a >= b THEN a ELSE b

\* SelectSeq with the elements of s that are in the set S, order kept
Restrict(s, S) == SelectSeq(s, LAMBDA x: x \in S)

\* the sequences that list every element of S once
Perms(S) == {p \in [1..Cardinality(S) -> S] : \A x \in S : \E i \in DOMAIN p : p[i] = x}

(***************************************************************************)
(* exceptions.py.  reason is the message of the innermost exception: a     *)
(* ResolutionError built from another exception keeps that exception as    *)
(* its reason.                                                             *)
(***************************************************************************)
ErrorClasses == {"Error", "InvalidSchemaError", "ResolutionError", "ParseError"}

Exception(cls, reason, keypath) == [cls |-> cls, reason |-> reason, keypath |-> keypath]

ResolutionError(reason, keypath) == Exception("ResolutionError", reason, keypath)

InvalidSchemaError(reason, keypath) == Exception("InvalidSchemaError", reason, keypath)

\* an exception without a keypath attribute
Error(reason) == Exception("Error", reason, <<>>)

PyError(cls, reason) == Exception(cls, reason, <<>>)

Ok(x) == [ok |-> TRUE, val |-> x]
Raise(e) == [ok |-> FALSE, exc |-> e]

\* an arbitrary element of the non-empty set S (what set.pop() returns)
AnyOf(S) == [k |-> "anyof", v |-> S, lp |-> 0, rp |-> 0]

\* the built-in `type`, which _validate_schema appends where "type" is meant
BuiltinType == [k |-> "builtin", v |-> "type", lp |-> 0, rp |-> 0]

(***************************************************************************)
(* Schema validation.                                                      *)
(***************************************************************************)
\* isinstance(schema, dict): every other Python value is a tagged record
IsDict(x) == ~("k" \in DOMAIN x /\ "v" \in DOMAIN x)

\* dct.get(key, {})
GetOrEmpty(dct, key) == IF key \in DOMAIN dct THEN dct[key] ELSE EmptyDict

_check_keys(provided, required, optional, keypath, allow_default) ==
    LET allowed == (required \cup optional)
                       \cup (IF allow_default THEN {"default"} ELSE {})
        extra == provided \ allowed
        missing == required \ provided
    IN IF extra # {}
       THEN Raise(InvalidSchemaError("Unexpected key.", Append(keypath, AnyOf(extra))))
       ELSE IF missing # {}
       THEN Raise(InvalidSchemaError("Missing key.", Append(keypath, AnyOf(missing))))
       ELSE Ok(TRUE)

RECURSIVE _validate_schema(_, _, _, _)
RECURSIVE _validate_keys(_, _, _, _, _, _)

\* the loops of _validate_dict_schema over required_keys and optional_keys:
\* the first schema that is not valid raises
_validate_keys(key_schemas, keys, which, keypath, allow_default, ord) ==
    IF keys = <<>> THEN Ok(TRUE)
    ELSE LET key == Head(keys)
             r == _validate_schema(key_schemas[key],
                                   keypath \o <<Key(which), Key(key)>>,
                                   allow_default, ord)
         IN IF ~r.ok THEN r
            ELSE _validate_keys(key_schemas, Tail(keys), which, keypath,
                                allow_default, ord)

_validate_dict_schema(dict_schema, keypath, allow_default, ord) ==
    LET c == _check_keys(DOMAIN dict_schema, {"type"},
                         {"required_keys", "optional_keys",
                          "extra_keys_schema", "nullable"},
                         keypath, allow_default)
        req == GetOrEmpty(dict_schema, "required_keys")
        opt == GetOrEmpty(dict_schema, "optional_keys")
        r1 == IF ~IsDict(req) THEN Raise(PyError("AttributeError", "items"))
              ELSE _validate_keys(req, Restrict(ord, DOMAIN req), "required_keys",
                                  keypath, FALSE, ord)
        r2 == IF ~IsDict(opt) THEN Raise(PyError("AttributeError", "items"))
              ELSE _validate_keys(opt, Restrict(ord, DOMAIN opt), "optional_keys",
                                  keypath, TRUE, ord)
    IN IF ~c.ok THEN c
       ELSE IF ~r1.ok THEN r1
       ELSE IF ~r2.ok THEN r2
       ELSE IF "extra_keys_schema" \in DOMAIN dict_schema
       THEN _validate_schema(dict_schema.extra_keys_schema,
                             Append(keypath, Key("extra_keys_schema")), FALSE, ord)
       ELSE Ok(TRUE)

_validate_list_schema(list_schema, keypath, allow_default, ord) ==
    LET c == _check_keys(DOMAIN list_schema, {"type", "element_schema"},
                         {"nullable"}, keypath, allow_default)
    IN IF ~c.ok THEN c
       ELSE _validate_schema(list_schema.element_schema,
                             Append(keypath, Key("element_schema")),
                             allow_default, ord)

_validate_leaf_schema(leaf_schema, keypath, allow_default) ==
    _check_keys(DOMAIN leaf_schema, {"type"}, {"nullable"}, keypath, allow_default)

_validate_schema(sch, keypath, allow_default, ord) ==
    IF ~IsDict(sch)
    THEN Raise(InvalidSchemaError("Schema must be a dict.", keypath))
    ELSE IF "type" \notin DOMAIN sch
    THEN Raise(InvalidSchemaError("Required key missing.", Append(keypath, BuiltinType)))
    ELSE IF sch.type = "dict" THEN _validate_dict_schema(sch, keypath, allow_default, ord)
    ELSE IF sch.type = "list" THEN _validate_list_schema(sch, keypath, allow_default, ord)
    ELSE _validate_leaf_schema(sch, keypath, allow_default)

\* mutant of validate_schema: every schema is taken
validate_schema_taking_all(sch, ord) == Ok(TRUE)

validate_schema(sch, ord) == _validate_schema(sch, <<>>, FALSE, ord)

(***************************************************************************)
(* parsers.py and the parser registry.  A parser is named by a string; a   *)
(* caller's own parser is one of the names in CallerParsers.               *)
(***************************************************************************)
\* str(x)
PyStr(x) ==
    CASE x.k = "str" -> x.v
      [] x.k = "int" -> <<Num(x.v)>>
      [] x.k = "float" -> <<Flt(x.v)>>
      [] x.k = "bool" -> <<Txt(IF x.v THEN "True" ELSE "False")>>
      [] x.k = "date" -> <<Iso(x.v)>>
      [] x.k = "datetime" -> <<IsoT(x.v)>>
      [] x.k = "none" -> <<Txt("None")>>
      [] OTHER -> <<Repr(x)>>

\* whether the text toks is atoms joined by " + " (the texts of the model
\* hold no two atoms side by side)
RECURSIVE IsSum(_)
IsSum(toks) ==
    /\ toks # <<>>
    /\ Head(toks).k \in {"num", "flt", "txt", "repr"}
    /\ Len(toks) > 1 => toks[2] = Plus /\ IsSum(SubSeq(toks, 3, Len(toks)))

\* _eval of a sum of numbers
RECURSIVE ArithValue(_)
ArithValue(toks) ==
    IF Len(toks) = 1 THEN Head(toks).v
    ELSE Head(toks).v + ArithValue(SubSeq(toks, 3, Len(toks)))

\* parsers.arithmetic(int): ast.parse raises a TypeError for what is not a
\* string and a SyntaxError for what is not an expression; _eval raises a
\* TypeError for a name or a display
arithmetic_int(s) ==
    IF s.k \in {"int", "bool"} THEN Ok(s)
    ELSE IF s.k # "str" THEN Raise(PyError("TypeError", "ast.parse"))
    ELSE IF ~IsSum(s.v) THEN Raise(PyError("SyntaxError", "ast.parse"))
    ELSE IF \E i \in DOMAIN s.v : s.v[i].k \in {"txt", "repr"}
    THEN Raise(PyError("TypeError", "_eval"))
    ELSE Ok(IntV(ArithValue(s.v)))

\* parsers.arithmetic(float)
arithmetic_float(s) ==
    IF s.k = "float" THEN Ok(s)
    ELSE IF s.k # "str" THEN Raise(PyError("TypeError", "ast.parse"))
    ELSE IF ~IsSum(s.v) THEN Raise(PyError("SyntaxError", "ast.parse"))
    ELSE IF \E i \in DOMAIN s.v : s.v[i].k \in {"txt", "repr"}
    THEN Raise(PyError("TypeError", "_eval"))
    ELSE Ok(FloatV(ArithValue(s.v)))

\* parsers.logic: of the texts of the model, _eval takes the constants True,
\* False and None
logic(s) ==
    IF s.k = "bool" THEN Ok(s)
    ELSE IF s.k # "str" THEN Raise(PyError("TypeError", "ast.parse"))
    ELSE IF ~IsSum(s.v) THEN Raise(PyError("SyntaxError", "ast.parse"))
    ELSE IF s.v \in {<<Txt("True")>>, <<Txt("False")>>, <<Txt("None")>>}
    THEN Ok(BoolV(s.v = <<Txt("True")>>))
    ELSE Raise(PyError("TypeError", "_eval"))

\* parsers.smartdate: of the texts of the model, the ISO forms are dates
smartdate(s) ==
    IF s.k \in {"date", "datetime"} THEN Ok(s)
    ELSE IF s.k # "str" THEN Raise(PyError("TypeError", "fromisoformat"))
    ELSE IF Len(s.v) = 1 /\ s.v[1].k \in {"iso", "isot"} THEN Ok(DateV(s.v[1].v))
    ELSE Raise(Exception("ParseError", "Cannot parse into date", <<>>))

\* parsers.smartdatetime: datetime(s) raises a TypeError for a date
smartdatetime(s) ==
    IF s.k \in {"date", "datetime"} THEN Raise(PyError("TypeError", "datetime"))
    ELSE IF s.k # "str" THEN Raise(PyError("TypeError", "fromisoformat"))
    ELSE IF Len(s.v) = 1 /\ s.v[1].k \in {"iso", "isot"} THEN Ok(DateTimeV(s.v[1].v))
    ELSE Raise(Exception("ParseError", "Cannot parse datetime", <<>>))

\* the callable behind a parser name, applied to s
ApplyParser(parser, s) ==
    CASE parser = "arithmetic_int" -> arithmetic_int(s)
      [] parser = "arithmetic_float" -> arithmetic_float(s)
      [] parser = "logic" -> logic(s)
      [] parser = "smartdate" -> smartdate(s)
      [] parser = "smartdatetime" -> smartdatetime(s)
      [] parser = "str" -> Ok(StrV(PyStr(s)))
      [] parser = "identity" -> Ok(s)
      [] parser = "caller_zero" -> Ok(IntV(0))
      [] parser = "caller_identity" -> Ok(s)

DEFAULT_PARSERS ==
    [integer |-> "arithmetic_int", float |-> "arithmetic_float", string |-> "str",
     boolean |-> "logic", date |-> "smartdate", datetime |-> "smartdatetime",
     any |-> "identity"]

\* mutant of _update_parsers: the overrides take the place of the defaults
_update_parsers_replacing(overrides) ==
    IF overrides = NoArg THEN registry ELSE overrides.v

\* _update_parsers: the dict it returns, made of what DEFAULT_PARSERS holds
\* when it is called
_update_parsers(overrides) ==
    IF overrides = NoArg THEN registry
    ELSE [t \in DOMAIN registry \cup DOMAIN overrides.v |->
            IF t \in DOMAIN overrides.v THEN overrides.v[t] ELSE registry[t]]

\* mutant of DEFAULT_PARSERS_after: parsers is DEFAULT_PARSERS itself, and the
\* overrides are written into it
DEFAULT_PARSERS_written(overrides) == _update_parsers(overrides)

\* _update_parsers, line 129: what DEFAULT_PARSERS holds when it returns; the
\* overrides are written into a copy
DEFAULT_PARSERS_after(overrides) == registry

\* mutant of _Resolver_parse: the string is handed back as it is
_Resolver_parse_nothing(prs, s, type_) == Ok(s)

\* _Resolver.parse
_Resolver_parse(prs, s, type_) ==
    IF type_ \notin DOMAIN prs
    THEN Raise(Error("No parser for type"))
    ELSE ApplyParser(prs[type_], s)

(***************************************************************************)
(* References and dotted paths.                                            *)
(***************************************************************************)
\* what the group of r"\$\{\s?(.+?)\s?\}" captures in the placeholder ph:
\* the dotted path with all but one of the blanks on either side
Captured(ph) == [path |-> ph.v.path, lp |-> Max(ph.v.l - 1, 0), rp |-> Max(ph.v.r - 1, 0)]

\* _LeafNode.references
references(raw) ==
    IF raw.k # "str" THEN <<>>
    ELSE LET phs == SelectSeq(raw.v, LAMBDA t: t.k = "ph")
         IN [i \in DOMAIN phs |-> Captured(phs[i])]

\* whether r"\$\{\s?" + reference_path + r"\s?\}" matches the placeholder ph
Matches(reference_path, ph) ==
    /\ ph.v.path = reference_path.path
    /\ ph.v.l \in {reference_path.lp, reference_path.lp + 1}
    /\ ph.v.r \in {reference_path.rp, reference_path.rp + 1}

\* re.sub(pattern, str(substitution), s)
RECURSIVE re_sub(_, _, _)
re_sub(reference_path, repl, toks) ==
    IF toks = <<>> THEN <<>>
    ELSE LET t == Head(toks)
             rest == re_sub(reference_path, repl, Tail(toks))
         IN IF t.k = "ph" /\ Matches(reference_path, t) THEN repl \o rest
            ELSE <<t>> \o rest

_explode_dotted_path_string(keypath) ==
    LET n == Len(keypath.path)
        lpad(i) == IF i = 1 THEN keypath.lp ELSE 0
        rpad(i) == IF i = n THEN keypath.rp ELSE 0
        _parse_path_component(i) ==
            LET c == keypath.path[i]
            IN IF c.k = "digits" /\ lpad(i) = 0 /\ rpad(i) = 0
               THEN Idx(c.v)
               ELSE [k |-> IF c.k = "digits" THEN "numstr" ELSE "str",
                     v |-> c.v, lp |-> lpad(i), rp |-> rpad(i)]
    IN [i \in 1..n |-> _parse_path_component(i)]

\* obj[c] for a node of the tree (__getitem__ of _DictNode and _ListNode; a
\* _LeafNode has none) or for a plain dict or list
getitem(obj, c) ==
    CASE obj.k = "dictnode" ->
            IF c.k = "str" /\ c.lp = 0 /\ c.rp = 0 /\ c.v \in DOMAIN obj.children
            THEN Ok(obj.children[c.v]) ELSE Raise(PyError("KeyError", "key"))
      [] obj.k = "dict" ->
            IF c.k = "str" /\ c.lp = 0 /\ c.rp = 0 /\ c.v \in DOMAIN obj.v
            THEN Ok(obj.v[c.v]) ELSE Raise(PyError("KeyError", "key"))
      [] obj.k = "listnode" ->
            IF c.k # "int" THEN Raise(PyError("TypeError", "list indices"))
            ELSE IF c.v < Len(obj.children) THEN Ok(obj.children[c.v + 1])
            ELSE Raise(PyError("IndexError", "list index"))
      [] obj.k = "list" ->
            IF c.k # "int" THEN Raise(PyError("TypeError", "list indices"))
            ELSE IF c.v < Len(obj.v) THEN Ok(obj.v[c.v + 1])
            ELSE Raise(PyError("IndexError", "list index"))
      [] obj.k \in {"leaf", "none", "int", "float", "bool", "date", "datetime"} ->
            Raise(PyError("TypeError", "not subscriptable"))
      [] obj.k = "str" /\ c.k # "int" ->
            Raise(PyError("TypeError", "string indices"))

RECURSIVE _get_path(_, _)
_get_path(dct, exploded_path) ==
    IF exploded_path = <<>> THEN Raise(PyError("IndexError", "tuple index"))
    ELSE LET r == getitem(dct, exploded_path[1])
         IN IF Len(exploded_path) = 1 \/ ~r.ok THEN r
            ELSE _get_path(r.val, Tail(exploded_path))

(***************************************************************************)
(* The configuration tree.  A node is a record: a leaf, or a dict or list  *)
(* node with its children.  The children of a dict node are a function     *)
(* and the order in which the keys were inserted.                          *)
(***************************************************************************)
UNDISCOVERED == [c |-> "undiscovered"]
PENDING == [c |-> "pending"]

\* mutant of Resolved: the value of a leaf is not kept in its cell
Resolved_not_kept(val) == UNDISCOVERED

Resolved(val) == [c |-> "resolved", v |-> val]

\* _LeafNode.__init__(raw, type_, parent, keypath, resolution_context, nullable)
_LeafNode_init(raw, type_, keypath, resolution_context, nullable) ==
    [k |-> "leaf", raw |-> raw, type_ |-> type_, keypath |-> keypath,
     nullable |-> nullable]

\* _LeafNode.from_raw: its nullable is passed in the place of
\* resolution_context, and the nullable of __init__ keeps its default
_LeafNode_from_raw(raw, leaf_schema, keypath, nullable) ==
    _LeafNode_init(raw, leaf_schema.type, keypath, nullable, FALSE)

NoChildren == [f |-> EmptyDict, ord |-> <<>>]

\* children[key] = node
SetChild(children, key, node) ==
    [f |-> (key :> node) @@ children.f,
     ord |-> IF key \in DOMAIN children.f THEN children.ord
             ELSE Append(children.ord, key)]

RECURSIVE _build_configuration_tree_node(_, _, _, _)
RECURSIVE required_loop(_, _, _, _, _, _)
RECURSIVE optional_loop(_, _, _, _, _, _)
RECURSIVE extra_loop(_, _, _, _, _, _)
RECURSIVE list_loop(_, _, _, _, _, _)

\* mutant of required_loop: a required key that is absent is passed over
required_loop_passing_over(keys, children, dct, required_keys, keypath, ord) ==
    IF keys = <<>> THEN Ok(children)
    ELSE LET key == Head(keys)
         IN IF key \notin DOMAIN dct
            THEN required_loop(Tail(keys), children, dct, required_keys, keypath, ord)
            ELSE LET r == _build_configuration_tree_node(
                              dct[key], required_keys[key], Append(keypath, Key(key)), ord)
                 IN IF ~r.ok THEN r
                    ELSE required_loop(Tail(keys), SetChild(children, key, r.val),
                                       dct, required_keys, keypath, ord)

\* the for loop of _populate_required_keys_children over the keys left
required_loop(keys, children, dct, required_keys, keypath, ord) ==
    IF keys = <<>> THEN Ok(children)
    ELSE LET key == Head(keys)
         IN IF key \notin DOMAIN dct
            THEN Raise(ResolutionError("Missing required key.", Append(keypath, Key(key))))
            ELSE LET r == _build_configuration_tree_node(
                              dct[key], required_keys[key], Append(keypath, Key(key)), ord)
                 IN IF ~r.ok THEN r
                    ELSE required_loop(Tail(keys), SetChild(children, key, r.val),
                                       dct, required_keys, keypath, ord)

_populate_required_keys_children(children, dct, dict_schema, keypath, ord) ==
    LET required_keys == GetOrEmpty(dict_schema, "required_keys")
    IN required_loop(Restrict(ord, DOMAIN required_keys), children, dct,
                     required_keys, keypath, ord)

\* mutant of optional_loop: the default of an absent key is not looked at
optional_loop_without_default(keys, children, dct, optional_keys, keypath, ord) ==
    IF keys = <<>> THEN Ok(children)
    ELSE LET key == Head(keys)
             key_schema == optional_keys[key]
         IN IF key \notin DOMAIN dct
            THEN optional_loop(Tail(keys), children, dct, optional_keys, keypath, ord)
            ELSE LET r == _build_configuration_tree_node(
                              dct[key], key_schema, Append(keypath, Key(key)), ord)
                 IN IF ~r.ok THEN r
                    ELSE optional_loop(Tail(keys), SetChild(children, key, r.val),
                                       dct, optional_keys, keypath, ord)

\* the for loop of _populate_optional_keys_children over the keys left
optional_loop(keys, children, dct, optional_keys, keypath, ord) ==
    IF keys = <<>> THEN Ok(children)
    ELSE LET key == Head(keys)
             key_schema == optional_keys[key]
         IN IF key \notin DOMAIN dct /\ "default" \notin DOMAIN key_schema
            THEN optional_loop(Tail(keys), children, dct, optional_keys, keypath, ord)
            ELSE LET value == IF key \in DOMAIN dct THEN dct[key]
                              ELSE key_schema.default
                     r == _build_configuration_tree_node(
                              value, key_schema, Append(keypath, Key(key)), ord)
                 IN IF ~r.ok THEN r
                    ELSE optional_loop(Tail(keys), SetChild(children, key, r.val),
                                       dct, optional_keys, keypath, ord)

_populate_optional_keys_children(children, dct, dict_schema, keypath, ord) ==
    LET optional_keys == GetOrEmpty(dict_schema, "optional_keys")
    IN optional_loop(Restrict(ord, DOMAIN optional_keys), children, dct,
                     optional_keys, keypath, ord)

\* mutant of extra_loop: the extra keys get no child
extra_loop_without_children(keys, children, dct, dict_schema, keypath, ord) ==
    Ok(children)

\* the for loop of _populate_extra_keys_children over the keys left
extra_loop(keys, children, dct, dict_schema, keypath, ord) ==
    IF keys = <<>> THEN Ok(children)
    ELSE LET key == Head(keys)
             r == _build_configuration_tree_node(
                      dct[key], dict_schema.extra_keys_schema,
                      Append(keypath, Key(key)), ord)
         IN IF ~r.ok THEN r
            ELSE extra_loop(Tail(keys), SetChild(children, key, r.val),
                            dct, dict_schema, keypath, ord)

\* mutant of _populate_extra_keys_children: without an extra_keys_schema the
\* extra keys are left out instead of refused
_populate_extra_keys_children_lenient(children, dct, dict_schema, keypath, ord) ==
    LET required_keys == GetOrEmpty(dict_schema, "required_keys")
        optional_keys == GetOrEmpty(dict_schema, "optional_keys")
        expected_keys == DOMAIN required_keys \cup DOMAIN optional_keys
        extra_keys == DOMAIN dct \ expected_keys
    IN IF "extra_keys_schema" \notin DOMAIN dict_schema
       THEN Ok(children)
       ELSE extra_loop(Restrict(ord, extra_keys), children, dct, dict_schema,
                       keypath, ord)

_populate_extra_keys_children(children, dct, dict_schema, keypath, ord) ==
    LET required_keys == GetOrEmpty(dict_schema, "required_keys")
        optional_keys == GetOrEmpty(dict_schema, "optional_keys")
        expected_keys == DOMAIN required_keys \cup DOMAIN optional_keys
        extra_keys == DOMAIN dct \ expected_keys
    IN IF extra_keys # {} /\ "extra_keys_schema" \notin DOMAIN dict_schema
       THEN Raise(ResolutionError("Unexpected extra key.",
                                  Append(keypath, AnyOf(extra_keys))))
       ELSE extra_loop(Restrict(ord, extra_keys), children, dct, dict_schema,
                       keypath, ord)

_DictNode_from_raw(dct, dict_schema, keypath, ord) ==
    LET r1 == _populate_required_keys_children(NoChildren, dct, dict_schema, keypath, ord)
        r2 == _populate_optional_keys_children(r1.val, dct, dict_schema, keypath, ord)
        r3 == _populate_extra_keys_children(r2.val, dct, dict_schema, keypath, ord)
    IN IF ~r1.ok THEN r1
       ELSE IF ~r2.ok THEN r2
       ELSE IF ~r3.ok THEN r3
       ELSE Ok([k |-> "dictnode", children |-> r3.val.f, ord |-> r3.val.ord,
                keypath |-> keypath])

\* the for loop of _ListNode.from_raw from element i (counted from 0) on
list_loop(i, children, lst, child_schema, keypath, ord) ==
    IF i >= Len(lst) THEN Ok(children)
    ELSE LET r == _build_configuration_tree_node(
                      lst[i + 1], child_schema, Append(keypath, Idx(i)), ord)
         IN IF ~r.ok THEN r
            ELSE list_loop(i + 1, Append(children, r.val), lst, child_schema,
                           keypath, ord)

_ListNode_from_raw(lst, list_schema, keypath, ord) ==
    IF "element_schema" \notin DOMAIN list_schema
    THEN Raise(PyError("KeyError", "element_schema"))
    ELSE LET r == list_loop(0, <<>>, lst, list_schema.element_schema, keypath, ord)
         IN IF ~r.ok THEN r
            ELSE Ok([k |-> "listnode", children |-> r.val, keypath |-> keypath])

\* schema[key] where the schema has not been validated
subscript(sch, key) ==
    IF ~IsDict(sch) THEN Raise(PyError("TypeError", "string indices"))
    ELSE IF key \notin DOMAIN sch THEN Raise(PyError("KeyError", key))
    ELSE Ok(sch[key])

\* mutant of AnyDictSchema: the entries of a dict under "any" are not nullable
AnyDictSchema_not_nullable ==
    [type |-> "dict", extra_keys_schema |-> [type |-> "any"]]

AnyDictSchema ==
    [type |-> "dict", extra_keys_schema |-> [type |-> "any", nullable |-> TRUE]]

AnyListSchema ==
    [type |-> "list", element_schema |-> [type |-> "any", nullable |-> TRUE]]

\* mutant of _build_configuration_tree_node: None is taken where the schema
\* does not say nullable
_build_configuration_tree_node_taking_none(raw, sch, keypath, ord) ==
    IF raw.k = "none"
    THEN Ok(_LeafNode_from_raw(None, [type |-> "any"], keypath, FALSE))
    ELSE IF ~subscript(sch, "type").ok THEN subscript(sch, "type")
    ELSE IF raw.k = "dict"
    THEN _DictNode_from_raw(raw.v, IF sch.type = "any" THEN AnyDictSchema ELSE sch,
                            keypath, ord)
    ELSE IF raw.k = "list"
    THEN _ListNode_from_raw(raw.v, IF sch.type = "any" THEN AnyListSchema ELSE sch,
                            keypath, ord)
    ELSE Ok(_LeafNode_from_raw(raw, sch, keypath, FALSE))

_build_configuration_tree_node(raw, sch, keypath, ord) ==
    IF raw.k = "none"
    THEN IF "nullable" \in DOMAIN sch /\ sch.nullable
         THEN Ok(_LeafNode_from_raw(None, [type |-> "any"], keypath, FALSE))
         ELSE Raise(ResolutionError("Unexpectedly null.", keypath))
    ELSE IF ~subscript(sch, "type").ok THEN subscript(sch, "type")
    ELSE IF raw.k = "dict"
    THEN _DictNode_from_raw(raw.v, IF sch.type = "any" THEN AnyDictSchema ELSE sch,
                            keypath, ord)
    ELSE IF raw.k = "list"
    THEN _ListNode_from_raw(raw.v, IF sch.type = "any" THEN AnyListSchema ELSE sch,
                            keypath, ord)
    ELSE Ok(_LeafNode_from_raw(raw, sch, keypath, FALSE))

\* the keypaths of the leaves of a tree
RECURSIVE Leaves(_)
Leaves(node) ==
    CASE node.k = "leaf" -> {node.keypath}
      [] node.k = "dictnode" ->
            UNION {Leaves(node.children[key]) : key \in DOMAIN node.children}
      [] node.k = "listnode" ->
            UNION {Leaves(node.children[i]) : i \in DOMAIN node.children}

(***************************************************************************)
(* The inputs of resolve().                                                *)
(***************************************************************************)
Keys == {"a", "b", "c"}
KeySeq == <<"a", "b", "c">>

\* ${self.key}
SelfRef(key) == Ph(<<Name("self"), Name(key)>>, 0, 0)

\* the atoms joined by " + "
RECURSIVE Sum(_)
Sum(atoms) ==
    IF Len(atoms) <= 1 THEN atoms
    ELSE <<Head(atoms), Plus>> \o Sum(Tail(atoms))

\* the string "${self.t1} + ${self.t2} + ..." over the keys in targets
RefString(targets) ==
    LET ts == Restrict(KeySeq, targets)
    IN StrV(Sum([i \in DOMAIN ts |-> SelfRef(ts[i])]))

Literals == {IntV(n) : n \in 1..MaxNum} \cup {StrV(<<Num(n)>>) : n \in 1..MaxNum}

\* the raw values of a leaf of RefInputs: a literal, a word, a sum of
\* references to at most MaxRefs keys, or a reference to a key that is missing
RefRaws ==
    Literals
        \cup {StrV(<<Txt("x")>>), StrV(<<SelfRef("z")>>)}
        \cup {RefString(ts) : ts \in {t \in SUBSET Keys : t # {} /\ Cardinality(t) <= MaxRefs}}

LeafTypes == {"integer", "string"}

\* the arguments of a call of resolve(), the order in which the dicts among
\* them list their keys, and what the caller does after the call
Input(raw, sch, ext, over, ord, plan_) ==
    [raw_cfg |-> raw, schema |-> sch, external_variables |-> ext,
     override_parsers |-> over, schema_validator |-> DefaultValidator,
     order |-> ord, plan |-> plan_]

\* a dict of three leaves of one type that refer to one another; the set is
\* closed under renaming the keys, so one order of the keys stands for all
RefInputs ==
    {Input(DictV(f),
           [type |-> "dict", required_keys |-> [key \in Keys |-> [type |-> t]]],
           NoArg, NoArg, KeySeq, "permuted") : f \in [Keys -> RefRaws], t \in LeafTypes}

\* ${self.i}
IndexRef(i) == Ph(<<Name("self"), Digits(i)>>, 0, 0)

ListRefRaws ==
    Literals \cup {StrV(<<IndexRef(0)>>), StrV(<<IndexRef(1)>>),
                   StrV(<<IndexRef(0), Plus, IndexRef(1)>>)}

\* a list of two leaves of one type that refer to one another
ListRefInputs ==
    {Input(ListV(<<x, y>>), [type |-> "list", element_schema |-> [type |-> t]],
           NoArg, NoArg, KeySeq, "permuted") : x \in ListRefRaws, y \in ListRefRaws, t \in LeafTypes}

\* a diamond of four leaves: a refers to b and c.b, which both refer to c.a
DiamondInput ==
    Input(DictV([a |-> StrV(<<SelfRef("b"), Plus,
                              Ph(<<Name("self"), Name("c"), Name("b")>>, 0, 0)>>),
                 b |-> StrV(<<Ph(<<Name("self"), Name("c"), Name("a")>>, 0, 0)>>),
                 c |-> DictV([a |-> StrV(<<Num(1), Plus, Num(1)>>),
                              b |-> StrV(<<Ph(<<Name("self"), Name("c"), Name("a")>>, 0, 0)>>)])]),
          [type |-> "dict",
           required_keys |->
               [a |-> [type |-> "integer"],
                b |-> [type |-> "integer"],
                c |-> [type |-> "dict",
                       required_keys |-> [a |-> [type |-> "integer"],
                                          b |-> [type |-> "integer"]]]]],
          NoArg, NoArg, KeySeq, "permuted")

Inputs == RefInputs \cup ListRefInputs \cup {DiamondInput}

\* where the dict or the value that an input is about sits: at the root, under
\* the key c of the root, or as the element of a list at the root
Contexts == {"root", "dict", "list"}

\* the dotted path from the root to that place
Prefix(ctx) ==
    CASE ctx = "root" -> <<>>
      [] ctx = "dict" -> <<Name("c")>>
      [] ctx = "list" -> <<Digits(0)>>

SchemaIn(ctx, sch) ==
    CASE ctx = "root" -> sch
      [] ctx = "dict" -> [type |-> "dict", required_keys |-> [key \in {"c"} |-> sch]]
      [] ctx = "list" -> [type |-> "list", element_schema |-> sch]

RawIn(ctx, raw) ==
    CASE ctx = "root" -> raw
      [] ctx = "dict" -> DictV([key \in {"c"} |-> raw])
      [] ctx = "list" -> ListV(<<raw>>)

\* ${self.<prefix>.key}
RefTo(prefix, key) == Ph(<<Name("self")>> \o prefix \o <<Name(key)>>, 0, 0)

\* what the schema of a dict says about one of its keys
Roles == {"required", "optional", "default", "unlisted"}

\* a dict schema over the keys a and b, role[key] saying how it lists the key
KeysSchema(role, default, extra) ==
    LET required == {key \in DOMAIN role : role[key] = "required"}
        optional == {key \in DOMAIN role : role[key] \in {"optional", "default"}}
        key_schema(key) ==
            IF role[key] = "default"
            THEN [type |-> "integer", default |-> default]
            ELSE [type |-> "integer"]
    IN ("type" :> "dict")
           @@ (IF required = {} THEN EmptyDict
               ELSE "required_keys" :> [key \in required |-> key_schema(key)])
           @@ (IF optional = {} THEN EmptyDict
               ELSE "optional_keys" :> [key \in optional |-> key_schema(key)])
           @@ (IF extra THEN "extra_keys_schema" :> [type |-> "string"] ELSE EmptyDict)

Absent == [k |-> "absent", v |-> 0]

\* a raw dict over the keys a and b, val[key] being Absent for a key left out
KeysRaw(val) == DictV([key \in {k \in DOMAIN val : val[k] # Absent} |-> val[key]])

\* the raw values of the key `key` of KeysInputs
KeyRaws(prefix, key) ==
    {Absent, IntV(1), None, StrV(<<RefTo(prefix, IF key = "a" THEN "b" ELSE "a")>>)}

\* the defaults of KeysInputs
Defaults(prefix) == {StrV(<<Num(1), Plus, Num(1)>>), StrV(<<RefTo(prefix, "a")>>), None}

\* a dict whose keys a and b are required, optional with or without a
\* default, or not listed, with or without an extra_keys_schema, and hold an
\* integer, a reference to the other key, None or nothing
KeysInput(ctx, role, default, extra, val, ord) ==
    Input(RawIn(ctx, KeysRaw(val)), SchemaIn(ctx, KeysSchema(role, default, extra)),
          NoArg, NoArg, ord, "defaults_written")

\* the schemas of a value that may be None, nullable being set, unset or left out
NullableSchemas ==
    LET bases == {[type |-> "integer"], [type |-> "any"], [type |-> "dict"],
                  [type |-> "list", element_schema |-> [type |-> "integer"]]}
    IN bases \cup {sch @@ ("nullable" :> n) : sch \in bases, n \in BOOLEAN}

\* a value that the schema takes
ValueFor(sch) ==
    CASE sch.type = "dict" -> DictV(EmptyDict)
      [] sch.type = "list" -> ListV(<<IntV(1)>>)
      [] OTHER -> IntV(1)

NullableRaws(sch) == {None, ValueFor(sch)}

\* a value that may be None at the root, under a key that is required,
\* optional, defaulted or extra, or in a list; the caller may override "any"
NullInputs ==
    LET at(sch, raw) ==
            {[raw |-> raw, sch |-> sch],
             [raw |-> DictV([a |-> raw]),
              sch |-> [type |-> "dict", required_keys |-> [a |-> sch]]],
             [raw |-> DictV([a |-> raw]),
              sch |-> [type |-> "dict", optional_keys |-> [a |-> sch]]],
             [raw |-> DictV(EmptyDict),
              sch |-> [type |-> "dict",
                       optional_keys |-> [a |-> sch @@ ("default" :> raw)]]],
             [raw |-> DictV([a |-> raw]),
              sch |-> [type |-> "dict", extra_keys_schema |-> sch]],
             [raw |-> ListV(<<ValueFor(sch), raw>>),
              sch |-> [type |-> "list", element_schema |-> sch]],
             [raw |-> DictV([a |-> raw]), sch |-> [type |-> "any"]],
             [raw |-> ListV(<<raw>>), sch |-> [type |-> "any"]]}
        cases == UNION {UNION {at(sch, raw) : raw \in NullableRaws(sch)} :
                           sch \in NullableSchemas}
    IN {Input(c.raw, c.sch, NoArg, over, KeySeq, "defaults_written") :
           c \in cases, over \in {NoArg, DictV([any |-> "caller_zero"])}}

MaxCalls == 2

\* Input with the schema validator switched off (schema_validator=None)
Unvalidated(inp) == [inp EXCEPT !.schema_validator = NoArg]

\* a well-formed schema: a dict of the two strings a and b
TwoStrings ==
    [type |-> "dict",
     required_keys |-> [a |-> [type |-> "string"], b |-> [type |-> "string"]]]

\* TwoStrings with the schema of its key a replaced by sch
WithA(sch) == [TwoStrings EXCEPT !.required_keys = ("a" :> sch) @@ @]

\* schemas that are malformed: a key that no schema has, a schema without
\* "type", a schema that is not a dict, a list schema without
\* "element_schema", a default where the key is required
MalformedSchemas ==
    {TwoStrings @@ ("bogus" :> IntV(1)),
     [required_keys |-> TwoStrings.required_keys],
     StrV(<<Txt("string")>>),
     WithA([nullable |-> FALSE]),
     WithA(StrV(<<Txt("string")>>)),
     WithA([type |-> "list"]),
     WithA([type |-> "string", default |-> IntV(1)])}

\* raw configurations for TwoStrings: one that resolves, and ones with a
\* missing key, an extra key, a None and a circular reference
ArgRaws ==
    {DictV([a |-> StrV(<<Txt("x")>>), b |-> StrV(<<SelfRef("a")>>)]),
     DictV([a |-> StrV(<<Txt("x")>>)]),
     DictV([a |-> StrV(<<Txt("x")>>), b |-> StrV(<<Txt("x")>>), c |-> IntV(1)]),
     DictV([a |-> None, b |-> StrV(<<Txt("x")>>)]),
     DictV([a |-> StrV(<<SelfRef("b")>>), b |-> StrV(<<SelfRef("a")>>)])}

\* external variables with and without an entry under "self"
ArgExternals ==
    {NoArg,
     DictV([vars |-> DictV([foo |-> StrV(<<Txt("x")>>)])]),
     DictV([self |-> IntV(1)]),
     DictV([self |-> DictV([a |-> IntV(1)]), vars |-> IntV(1)])}

\* the type names with a default parser, and one without
ParserTypes == DOMAIN DEFAULT_PARSERS \cup {"color"}

\* the raw values of the leaves a and b of ParserInputs: a may refer to b
ParserRawsA ==
    {StrV(<<SelfRef("b")>>), StrV(<<Num(1), Plus, Num(1)>>), StrV(<<Txt("x")>>)}

ParserRawsB ==
    {IntV(1), StrV(<<Num(1), Plus, Num(1)>>), StrV(<<Txt("x"), Txt("y")>>),
     StrV(<<Iso(1)>>), StrV(<<Txt("True")>>)}

\* what the caller passes as override_parsers
ParserOverrides ==
    {NoArg,
     DictV([integer |-> "caller_zero"]),
     DictV([color |-> "caller_identity"]),
     DictV([any |-> "caller_zero", color |-> "caller_identity"])}

\* a dict of the leaves a and b, of every type, with and without overrides,
\* a or b coming first
ParserInputs ==
    {Input(DictV([a |-> ra, b |-> rb]),
           [type |-> "dict",
            required_keys |-> [a |-> [type |-> ta], b |-> [type |-> tb]]],
           NoArg, over, ord, "once") :
        ra \in ParserRawsA, rb \in ParserRawsB,
        ta \in {"string", "integer", "date", "color"}, tb \in ParserTypes,
        over \in ParserOverrides, ord \in {KeySeq, <<"b", "a", "c">>}}

\* dotted paths that start at the root of the tree: to an entry, to a key
\* that is missing, into and past the end of b, below b, and "self" alone
SelfPaths ==
    {<<Name("self"), Name("b")>>,
     <<Name("self"), Name("z")>>,
     <<Name("self"), Name("b"), Digits(0)>>,
     <<Name("self"), Name("b"), Digits(5)>>,
     <<Name("self"), Name("b"), Name("a")>>,
     <<Name("self"), Name("b"), Name("z")>>,
     <<Name("self")>>}

\* dotted paths into external_variables
ExternalPaths ==
    {<<Name("vars"), Name("foo")>>,
     <<Name("vars"), Name("zzz")>>,
     <<Name("vars"), Name("lst"), Digits(0)>>,
     <<Name("vars"), Name("lst"), Digits(5)>>,
     <<Name("vars"), Digits(0)>>,
     <<Name("foo")>>,
     <<Name("vars"), Name("foo"), Name("x")>>}

\* what the entry b of PathInputs is: a leaf, a list or a dict
PathTargets ==
    {StrV(<<Txt("x")>>), IntV(1),
     ListV(<<StrV(<<Txt("x")>>), IntV(1)>>),
     DictV([a |-> StrV(<<Txt("x")>>)])}

PathExternals ==
    {NoArg,
     DictV([vars |-> DictV([foo |-> IntV(1),
                            lst |-> ListV(<<StrV(<<Txt("x")>>)>>)])])}

PathSchema ==
    [type |-> "dict",
     required_keys |-> [a |-> [type |-> "string"], b |-> [type |-> "any"],
                        c |-> [type |-> "string"]]]

\* a dict whose leaf a holds one placeholder, with no blank or two blanks
\* before the path, and whose leaf c refers to a; a or c comes first
PathInputs ==
    {Input(DictV([a |-> StrV(<<Txt("p"), Ph(path, l, 0)>>), b |-> tgt,
                  c |-> StrV(<<SelfRef("a")>>)]),
           PathSchema, ext, NoArg, ord, "once") :
        path \in SelfPaths \cup ExternalPaths, l \in {0, 2},
        tgt \in PathTargets, ext \in PathExternals,
        ord \in {KeySeq, <<"c", "a", "b">>}}

\* the raw elements of the lists of ListInputs: values the element type
\* takes or rejects, references to an element and to an external variable
ListElements ==
    {IntV(1), StrV(<<Num(1), Plus, Num(1)>>), StrV(<<Txt("x"), Txt("y")>>),
     StrV(<<IndexRef(0)>>), StrV(<<IndexRef(1)>>),
     StrV(<<Ph(<<Name("vars"), Name("x")>>, 0, 0)>>)}

\* a list of two elements, or a scalar, as the root configuration
ListInputs ==
    {Input(ListV(<<e1, e2>>), [type |-> "list", element_schema |-> [type |-> t]],
           NoArg, NoArg, KeySeq, "once") :
        e1 \in ListElements, e2 \in ListElements, t \in {"integer", "string"}}
    \cup
    {Input(e, [type |-> t], NoArg, NoArg, KeySeq, "once") :
        e \in ListElements \ {StrV(<<IndexRef(0)>>), StrV(<<IndexRef(1)>>)},
        t \in {"integer", "string"}}

\* the values without placeholders of WildcardInputs: scalars, and containers
\* of scalars
WildScalars == {None, IntV(1), StrV(<<Txt("x")>>)}

WildValues ==
    WildScalars
    \cup {DictV([a |-> x]) : x \in WildScalars}
    \cup {ListV(<<x, IntV(1)>>) : x \in WildScalars}
    \cup {DictV(EmptyDict), ListV(<<>>)}

\* raw configurations under the schema {"type": "any"}: dicts and lists of
\* WildValues and scalars, without placeholders and with a placeholder that
\* names an entry or an external variable
WildcardInputs ==
    LET plain == {DictV([a |-> x, b |-> y]) : x \in WildValues, y \in WildValues}
                 \cup {ListV(<<x, y>>) : x \in WildValues, y \in WildValues}
                 \cup WildScalars
        referring ==
            {DictV([a |-> x, b |-> StrV(<<SelfRef("a"), Txt("y")>>)]) : x \in WildValues}
            \cup {ListV(<<x, StrV(<<IndexRef(0)>>)>>) : x \in WildValues}
            \cup {DictV([a |-> StrV(<<Ph(<<Name("vars"), Name("foo")>>, 0, 0)>>)]),
                  StrV(<<Ph(<<Name("vars"), Name("lst")>>, 0, 0)>>)}
    IN {Input(raw, [type |-> "any"], ext, NoArg, KeySeq, "once") :
            raw \in plain \cup referring, ext \in PathExternals}

\* calls that differ in the schema, the external variables and the validator
ArgInputs ==
    LET validated ==
            {Input(raw, sch, ext, NoArg, KeySeq, "permuted") :
                raw \in ArgRaws, sch \in {TwoStrings} \cup MalformedSchemas,
                ext \in ArgExternals}
    IN validated \cup {Unvalidated(inp) : inp \in validated}

(***************************************************************************)
(* resolve() as a state machine.  A frame of the stack is one call of a    *)
(* node's .resolve(): the node, where the call stands, the index of the    *)
(* child or reference it works on, and the value built so far.             *)
(***************************************************************************)
Frame(node) == [node |-> node, st |-> "entry", i |-> 1, acc |-> None]

\* an exception arose in the .resolve() of the leaf at keypath: the leaf was
\* found _PENDING ("circular"), a placeholder rooted at self or at the external
\* variables was not found (lookup being the exception of _get_path), there
\* was no parser for its type, or the parser raised
Blame(keypath, why, lookup) == [keypath |-> keypath, why |-> why, lookup |-> lookup]

Top == stack[Len(stack)]
Pop == SubSeq(stack, 1, Len(stack) - 1)
SetTop(frame) == [stack EXCEPT ![Len(stack)] = frame]
Push(frame, node) == Append(SetTop(frame), Frame(node))

\* the local external_variables of resolve() (lines 92-93)
ExternalVariables ==
    IF external_variables = NoArg THEN DictV(EmptyDict) ELSE external_variables

\* resolve() is called with the arguments of inp
Call(inp) ==
    /\ raw_cfg = inp.raw_cfg
    /\ schema = inp.schema
    /\ external_variables = inp.external_variables
    /\ override_parsers = inp.override_parsers
    /\ schema_validator = inp.schema_validator
    /\ order = inp.order
    /\ plan = inp.plan
    /\ pc = "call"
    /\ parsers = EmptyDict
    /\ root = NoTree
    /\ resolved = EmptyDict
    /\ stack = <<>>
    /\ ret = NoRet
    /\ outcome = NoRet
    /\ parser_calls = EmptyDict
    /\ calls = 1
    /\ prev = NoRet
    /\ reads = EmptyDict
    /\ steps = 0
    /\ culprit = <<>>
    /\ registry = DEFAULT_PARSERS

Init == \E inp \in Inputs : Call(inp)

\* the calls that are about the building of the tree
InitBuild ==
    \/ \E ctx \in Contexts, role \in [{"a", "b"} -> Roles], extra \in BOOLEAN,
          ord \in {KeySeq, <<"b", "a", "c">>} :
          \E default \in Defaults(Prefix(ctx)), va \in KeyRaws(Prefix(ctx), "a"),
             vb \in KeyRaws(Prefix(ctx), "b") :
             Call(KeysInput(ctx, role, default, extra, [a |-> va, b |-> vb], ord))
    \/ \E inp \in NullInputs : Call(inp)

\* the calls that are about the arguments of resolve(), the parsers, the
\* paths of the placeholders, lists and the wildcard schema
InitArgs ==
    \/ \E inp \in ArgInputs : Call(inp)
    \/ \E inp \in ParserInputs : Call(inp)
    \/ \E inp \in PathInputs : Call(inp)
    \/ \E inp \in ListInputs : Call(inp)
    \/ \E inp \in WildcardInputs : Call(inp)

\* the most blanks written on either side of the path of a placeholder
MaxBlanks == 2

\* a dict whose leaf a holds one placeholder with blanks before and after
\* its path; the path leads to the leaf b, to an element of the list b or to
\* an external variable.  The second call is made with the blanks taken out
BlankInputs ==
    {Input(DictV([a |-> StrV(<<Txt("p"), Ph(path, l, r)>>), b |-> tgt]),
           [type |-> "dict",
            required_keys |-> [a |-> [type |-> ta], b |-> [type |-> "any"]]],
           ext, NoArg, ord, "stripped") :
        path \in {<<Name("self"), Name("b")>>,
                  <<Name("self"), Name("b"), Digits(0)>>,
                  <<Name("vars"), Name("foo")>>},
        l \in 0..MaxBlanks, r \in 0..MaxBlanks,
        tgt \in {StrV(<<Txt("x")>>), ListV(<<StrV(<<Txt("x")>>), IntV(1)>>)},
        ta \in {"string", "any"},
        ext \in PathExternals, ord \in {KeySeq, <<"b", "a", "c">>}}

\* raw values of every shape: a mapping, a sequence, a scalar, and the empty
\* mapping and sequence
ShapeRaws ==
    {DictV([a |-> IntV(1)]), DictV(EmptyDict), ListV(<<IntV(1)>>), ListV(<<>>),
     IntV(1), StrV(<<Num(1)>>)}

\* schemas of every variant
ShapeSchemas ==
    {[type |-> "dict", required_keys |-> [a |-> [type |-> "integer"]]],
     [type |-> "dict", optional_keys |-> [a |-> [type |-> "integer"]]],
     [type |-> "dict"],
     [type |-> "list", element_schema |-> [type |-> "integer"]],
     [type |-> "integer"],
     [type |-> "any"]}

\* a raw value of one shape under a schema of one variant: as the root, as
\* the entry b of a dict and as the element of a list
ShapeInputs ==
    {Input(raw, sch, NoArg, NoArg, KeySeq, "once") :
        raw \in ShapeRaws, sch \in ShapeSchemas}
    \cup
    {Input(DictV([b |-> raw]), [type |-> "dict", required_keys |-> [b |-> sch]],
           NoArg, NoArg, KeySeq, "once") :
        raw \in ShapeRaws, sch \in ShapeSchemas}
    \cup
    {Input(ListV(<<raw>>), [type |-> "list", element_schema |-> sch],
           NoArg, NoArg, KeySeq, "once") :
        raw \in ShapeRaws, sch \in ShapeSchemas}

\* schemas the validator is asked about: a key that is both required and
\* optional, a default in every place a schema can stand in, a key map that
\* is no mapping, and violations at the root and two and three levels down
SchemaVariants ==
    LET int == [type |-> "integer"]
        intd == [type |-> "integer", default |-> IntV(1)]
    IN {[type |-> "dict", required_keys |-> [a |-> int],
         optional_keys |-> [a |-> [type |-> "string"]]],
        [type |-> "dict", required_keys |-> [a |-> [type |-> "string"]],
         optional_keys |-> [a |-> intd]],
        [type |-> "dict", required_keys |-> [a |-> int], optional_keys |-> [b |-> intd]],
        [type |-> "dict",
         optional_keys |-> [a |-> [type |-> "list", element_schema |-> intd]]],
        [type |-> "dict",
         optional_keys |-> [a |-> [type |-> "list", element_schema |-> int,
                                   default |-> ListV(<<IntV(1)>>)]]],
        [type |-> "dict",
         optional_keys |->
            [a |-> [type |-> "list", nullable |-> TRUE,
                    element_schema |->
                        [type |-> "dict", default |-> IntV(1),
                         optional_keys |-> [b |-> [type |-> "any",
                                                   default |-> IntV(1)]]]]]],
        [type |-> "dict",
         optional_keys |->
            [a |-> [type |-> "dict", default |-> DictV(EmptyDict),
                    required_keys |-> [b |-> intd]]]],
        [type |-> "dict", required_keys |-> [a |-> intd]],
        intd,
        [type |-> "list", element_schema |-> intd],
        [type |-> "dict", extra_keys_schema |-> intd],
        [type |-> "dict", required_keys |-> IntV(1)],
        [type |-> "dict", required_keys |-> [a |-> IntV(1)]],
        [type |-> "list"],
        [type |-> "list", element_schema |-> IntV(1)],
        EmptyDict,
        IntV(1),
        [type |-> "color"],
        [type |-> "any", foo |-> IntV(1)],
        [type |-> "any", nullable |-> TRUE],
        [type |-> "dict",
         required_keys |->
            [a |-> [type |-> "list",
                    element_schema |-> [type |-> "dict", element_schema |-> int]]]],
        [type |-> "dict",
         required_keys |->
            [a |-> [type |-> "list",
                    element_schema |-> [type |-> "dict",
                                        extra_keys_schema |-> int]]]]}

\* a dict with and without the entry a, under every schema of SchemaVariants
SchemaInputs ==
    {Input(raw, sch, NoArg, NoArg, ord, "once") :
        raw \in {DictV([a |-> StrV(<<Num(1)>>)]), DictV(EmptyDict),
                 DictV([a |-> ListV(<<IntV(1)>>)])},
        sch \in SchemaVariants, ord \in {KeySeq, <<"b", "a", "c">>}}

\* the calls that are about the way the configuration and the schema are
\* written
InitShape ==
    \/ \E inp \in BlankInputs : Call(inp)
    \/ \E inp \in ShapeInputs : Call(inp)
    \/ \E inp \in SchemaInputs : Call(inp)

\* calls that are followed by a second call, with the same arguments or with
\* the overrides left out: with and without overrides, with lists, with
\* malformed schemas, the reserved key and raw configurations that fail
FrameInputs ==
    {[inp EXCEPT !.plan = p] :
        inp \in ParserInputs \cup ListInputs \cup ArgInputs,
        p \in {"same", "without_overrides"}}

InitFrame == \E inp \in FrameInputs : Call(inp)

inputs == <<raw_cfg, schema, external_variables, override_parsers,
            schema_validator, plan>>

\* mutant of resolve: the schema is validated before external_variables is
\* looked at
resolve_validating_first ==
    /\ pc = "call"
    /\ LET v == validate_schema(schema, order)
       IN IF schema_validator # NoArg /\ ~v.ok
          THEN /\ outcome' = Exc(v.exc)
               /\ pc' = "done"
               /\ UNCHANGED <<parsers, registry>>
          ELSE IF "self" \in DOMAIN ExternalVariables.v
          THEN /\ outcome' = Exc(PyError("ValueError", "reserved"))
               /\ pc' = "done"
               /\ UNCHANGED <<parsers, registry>>
          ELSE /\ parsers' = _update_parsers(override_parsers)
               /\ registry' = DEFAULT_PARSERS_after(override_parsers)
               /\ pc' = "build"
               /\ UNCHANGED outcome
    /\ UNCHANGED <<inputs, culprit, order, root, resolved, stack, ret, parser_calls, calls,
                   prev, reads, steps>>

\* resolve(), lines 92-104: the reserved key, the schema, the parsers
resolve ==
    /\ pc = "call"
    /\ LET v == validate_schema(schema, order)
       IN IF "self" \in DOMAIN ExternalVariables.v
          THEN /\ outcome' = Exc(PyError("ValueError", "reserved"))
               /\ pc' = "done"
               /\ UNCHANGED <<parsers, registry>>
          ELSE IF schema_validator # NoArg /\ ~v.ok
          THEN /\ outcome' = Exc(v.exc)
               /\ pc' = "done"
               /\ UNCHANGED <<parsers, registry>>
          ELSE /\ parsers' = _update_parsers(override_parsers)
               /\ registry' = DEFAULT_PARSERS_after(override_parsers)
               /\ pc' = "build"
               /\ UNCHANGED outcome
    /\ UNCHANGED <<inputs, culprit, order, root, resolved, stack, ret, parser_calls, calls, prev,
                   reads, steps>>

\* resolve(), lines 106-110: the tree is built and root.resolve() is called
build ==
    /\ pc = "build"
    /\ LET r == _build_configuration_tree_node(raw_cfg, schema, <<>>, order)
       IN IF ~r.ok
          THEN /\ outcome' = Exc(r.exc)
               /\ pc' = "done"
               /\ UNCHANGED <<root, resolved, stack, parser_calls, reads>>
          ELSE /\ root' = r.val
               /\ reads' = [kp \in Leaves(r.val) |-> <<>>]
               /\ resolved' = [kp \in Leaves(r.val) |-> UNDISCOVERED]
               /\ parser_calls' = [kp \in Leaves(r.val) |-> 0]
               /\ stack' = <<Frame(r.val)>>
               /\ pc' = "resolve"
               /\ UNCHANGED outcome
    /\ UNCHANGED <<inputs, registry, culprit, order, parsers, ret, calls, prev, steps>>

\* mutant of _DictNode_resolve: the dict is returned after its first child
_DictNode_resolve_first_child_only ==
    /\ pc = "resolve" /\ stack # <<>>
    /\ steps' = steps + 1
    /\ Top.node.k = "dictnode"
    /\ ret.t # "exc"
    /\ LET node == Top.node
           acc == IF Top.st = "entry" THEN EmptyDict ELSE Top.acc
       IN IF ret.t = "value"
          THEN /\ stack' = SetTop([Top EXCEPT !.acc = (node.ord[Top.i] :> ret.v) @@ acc,
                                              !.i = Top.i + 1])
               /\ ret' = NoRet
          ELSE IF Top.i <= Len(node.ord) /\ Top.i <= 1
          THEN /\ stack' = Push([Top EXCEPT !.st = "wait", !.acc = acc],
                                node.children[node.ord[Top.i]])
               /\ UNCHANGED ret
          ELSE /\ stack' = Pop
               /\ ret' = Value(DictV(acc))
    /\ UNCHANGED <<inputs, registry, culprit, order, pc, parsers, root, resolved, outcome,
                   parser_calls, calls, prev, reads>>

\* _DictNode.resolve: the children are resolved in the order of the dict
_DictNode_resolve ==
    /\ pc = "resolve" /\ stack # <<>>
    /\ steps' = steps + 1
    /\ Top.node.k = "dictnode"
    /\ ret.t # "exc"
    /\ LET node == Top.node
           acc == IF Top.st = "entry" THEN EmptyDict ELSE Top.acc
       IN IF ret.t = "value"
          THEN /\ stack' = SetTop([Top EXCEPT !.acc = (node.ord[Top.i] :> ret.v) @@ acc,
                                              !.i = Top.i + 1])
               /\ ret' = NoRet
          ELSE IF Top.i <= Len(node.ord)
          THEN /\ stack' = Push([Top EXCEPT !.st = "wait", !.acc = acc],
                                node.children[node.ord[Top.i]])
               /\ UNCHANGED ret
          ELSE /\ stack' = Pop
               /\ ret' = Value(DictV(acc))
    /\ UNCHANGED <<inputs, registry, culprit, order, pc, parsers, root, resolved, outcome,
                   parser_calls, calls, prev, reads>>

\* _ListNode.resolve: the children are resolved in the order of the list
_ListNode_resolve ==
    /\ pc = "resolve" /\ stack # <<>>
    /\ steps' = steps + 1
    /\ Top.node.k = "listnode"
    /\ ret.t # "exc"
    /\ LET node == Top.node
           acc == IF Top.st = "entry" THEN <<>> ELSE Top.acc
       IN IF ret.t = "value"
          THEN /\ stack' = SetTop([Top EXCEPT !.acc = Append(acc, ret.v),
                                              !.i = Top.i + 1])
               /\ ret' = NoRet
          ELSE IF Top.i <= Len(node.children)
          THEN /\ stack' = Push([Top EXCEPT !.st = "wait", !.acc = acc],
                                node.children[Top.i])
               /\ UNCHANGED ret
          ELSE /\ stack' = Pop
               /\ ret' = Value(ListV(acc))
    /\ UNCHANGED <<inputs, registry, culprit, order, pc, parsers, root, resolved, outcome,
                   parser_calls, calls, prev, reads>>

\* mutant of _LeafNode_resolve: a leaf found PENDING is resolved once more
_LeafNode_resolve_without_pending_check ==
    /\ pc = "resolve" /\ stack # <<>>
    /\ steps' = steps + 1
    /\ Top.node.k = "leaf" /\ Top.st = "entry"
    /\ LET self == Top.node
           cell == resolved[self.keypath]
       IN IF cell # UNDISCOVERED /\ cell # PENDING
          THEN /\ ret' = Value(cell.v)
               /\ stack' = Pop
               /\ reads' = [reads EXCEPT ![self.keypath] = Append(@, cell.v)]
               /\ UNCHANGED <<resolved, culprit>>
          ELSE /\ resolved' = [resolved EXCEPT ![self.keypath] = PENDING]
               /\ stack' = SetTop([Top EXCEPT !.st = "run", !.acc = self.raw])
               /\ UNCHANGED <<ret, reads, culprit>>
    /\ UNCHANGED <<inputs, registry, order, pc, parsers, root, outcome, parser_calls, calls, prev>>

\* mutant of _LeafNode_resolve: a leaf that a placeholder reaches before the
\* walk has resolved it hands out its raw value
_LeafNode_resolve_raw_when_undiscovered ==
    /\ pc = "resolve" /\ stack # <<>>
    /\ steps' = steps + 1
    /\ Top.node.k = "leaf" /\ Top.st = "entry"
    /\ LET self == Top.node
           cell == resolved[self.keypath]
       IN IF cell = PENDING
          THEN /\ ret' = Exc(ResolutionError("Circular reference", self.keypath))
               /\ stack' = Pop
               /\ culprit' = Append(culprit, Blame(self.keypath, "circular", ""))
               /\ UNCHANGED <<resolved, reads>>
          ELSE IF cell # UNDISCOVERED
          THEN /\ ret' = Value(cell.v)
               /\ stack' = Pop
               /\ reads' = [reads EXCEPT ![self.keypath] = Append(@, cell.v)]
               /\ UNCHANGED <<resolved, culprit>>
          ELSE IF Len(stack) > 1 /\ stack[Len(stack) - 1].node.k = "leaf"
          THEN /\ ret' = Value(self.raw)
               /\ stack' = Pop
               /\ UNCHANGED <<resolved, reads, culprit>>
          ELSE /\ resolved' = [resolved EXCEPT ![self.keypath] = PENDING]
               /\ stack' = SetTop([Top EXCEPT !.st = "run", !.acc = self.raw])
               /\ UNCHANGED <<ret, reads, culprit>>
    /\ UNCHANGED <<inputs, registry, order, pc, parsers, root, outcome, parser_calls, calls, prev>>

\* _LeafNode.resolve, lines 378-386: the cell is looked at and set to PENDING
_LeafNode_resolve ==
    /\ pc = "resolve" /\ stack # <<>>
    /\ steps' = steps + 1
    /\ Top.node.k = "leaf" /\ Top.st = "entry"
    /\ LET self == Top.node
           cell == resolved[self.keypath]
       IN IF cell = PENDING
          THEN /\ ret' = Exc(ResolutionError("Circular reference", self.keypath))
               /\ stack' = Pop
               /\ culprit' = Append(culprit, Blame(self.keypath, "circular", ""))
               /\ UNCHANGED <<resolved, reads>>
          ELSE IF cell # UNDISCOVERED
          THEN /\ ret' = Value(cell.v)
               /\ stack' = Pop
               /\ reads' = [reads EXCEPT ![self.keypath] = Append(@, cell.v)]
               /\ UNCHANGED <<resolved, culprit>>
          ELSE /\ resolved' = [resolved EXCEPT ![self.keypath] = PENDING]
               /\ stack' = SetTop([Top EXCEPT !.st = "run", !.acc = self.raw])
               /\ UNCHANGED <<ret, reads, culprit>>
    /\ UNCHANGED <<inputs, registry, order, pc, parsers, root, outcome, parser_calls, calls, prev>>

\* the exception of an except KeyError clause of _Resolver: ".".join raises a
\* TypeError of its own when a component of the path is an int
dotted(exploded_path, reason) ==
    IF \E i \in DOMAIN exploded_path : exploded_path[i].k = "int"
    THEN PyError("TypeError", "join")
    ELSE Error(reason)

\* _Resolver.interpolate, lines 491-496, with _retrieve_from_root and
\* _retrieve_from_external_variables, called by line 388 for the next reference
_Resolver_interpolate ==
    /\ pc = "resolve" /\ stack # <<>>
    /\ steps' = steps + 1
    /\ Top.node.k = "leaf" /\ Top.st = "run"
    /\ Top.i <= Len(references(Top.node.raw))
    /\ LET reference_path == references(Top.node.raw)[Top.i]
           exploded_path == _explode_dotted_path_string(reference_path)
       IN IF exploded_path[1] = Key("self")
          THEN LET r == _get_path(root, Tail(exploded_path))
               IN IF r.ok
                  THEN /\ stack' = Push([Top EXCEPT !.st = "wait"], r.val)
                       /\ UNCHANGED <<ret, culprit>>
                  ELSE /\ stack' = SetTop([Top EXCEPT !.st = "wait"])
                       /\ ret' = Exc(IF r.exc.cls = "KeyError"
                                     THEN dotted(exploded_path, "Cannot resolve")
                                     ELSE r.exc)
                       /\ culprit' = Append(culprit, Blame(Top.node.keypath, "self",
                                                           r.exc.cls))
          ELSE LET r == _get_path(ExternalVariables, exploded_path)
               IN /\ stack' = SetTop([Top EXCEPT !.st = "wait"])
                  /\ ret' = IF r.ok THEN Value(r.val)
                            ELSE Exc(IF r.exc.cls = "KeyError"
                                     THEN dotted(exploded_path,
                                                 "Cannot find in external variables")
                                     ELSE r.exc)
                  /\ culprit' = IF r.ok THEN culprit
                                ELSE Append(culprit, Blame(Top.node.keypath, "external",
                                                           r.exc.cls))
    /\ UNCHANGED <<inputs, registry, order, pc, parsers, root, resolved, outcome,
                   parser_calls, calls, prev, reads>>

\* _Resolver.interpolate, lines 498-499: the substitution is written into s
_Resolver_interpolate_sub ==
    /\ pc = "resolve" /\ stack # <<>>
    /\ steps' = steps + 1
    /\ Top.node.k = "leaf" /\ Top.st = "wait"
    /\ ret.t = "value"
    /\ Top.i <= Len(references(Top.node.raw))
    /\ LET reference_path == references(Top.node.raw)[Top.i]
       IN stack' = SetTop([Top EXCEPT
                              !.acc = StrV(re_sub(reference_path, PyStr(ret.v), Top.acc.v)),
                              !.i = Top.i + 1,
                              !.st = "run"])
    /\ ret' = NoRet
    /\ UNCHANGED <<inputs, registry, culprit, order, pc, parsers, root, resolved, outcome,
                   parser_calls, calls, prev, reads>>

\* _LeafNode.resolve, lines 390-393: the parser is called on s
_Resolver_parse_call ==
    /\ pc = "resolve" /\ stack # <<>>
    /\ steps' = steps + 1
    /\ Top.node.k = "leaf" /\ Top.st = "run"
    /\ Top.i > Len(references(Top.node.raw))
    /\ LET self == Top.node
           r == _Resolver_parse(parsers, Top.acc, self.type_)
       IN IF self.nullable /\ self.raw.k = "none"
          THEN /\ resolved' = [resolved EXCEPT ![self.keypath] = Resolved(None)]
               /\ ret' = Value(None)
               /\ stack' = Pop
               /\ reads' = [reads EXCEPT ![self.keypath] = Append(@, None)]
               /\ UNCHANGED <<parser_calls, culprit>>
          ELSE /\ parser_calls' =
                     [parser_calls EXCEPT ![self.keypath] =
                         @ + (IF self.type_ \in DOMAIN parsers THEN 1 ELSE 0)]
               /\ IF r.ok
                  THEN /\ resolved' = [resolved EXCEPT ![self.keypath] = Resolved(r.val)]
                       /\ ret' = Value(r.val)
                       /\ stack' = Pop
                       /\ reads' = [reads EXCEPT ![self.keypath] = Append(@, r.val)]
                       /\ UNCHANGED culprit
                  ELSE /\ ret' = Exc(r.exc)
                       /\ stack' = SetTop([Top EXCEPT !.st = "wait", !.i = Top.i + 1])
                       /\ culprit' =
                             Append(culprit,
                                    Blame(self.keypath,
                                          IF self.type_ \in DOMAIN parsers THEN "parser"
                                          ELSE "no_parser", ""))
                       /\ UNCHANGED <<resolved, reads>>
    /\ UNCHANGED <<inputs, registry, order, pc, parsers, root, outcome, calls, prev>>

\* mutant of _LeafNode__safely: a leaf that failed is made ready for another try
_LeafNode__safely_forgetting ==
    /\ pc = "resolve" /\ stack # <<>>
    /\ steps' = steps + 1
    /\ Top.node.k = "leaf" /\ Top.st = "wait"
    /\ ret.t = "exc"
    /\ ret' = IF ret.e.cls \in ErrorClasses
              THEN Exc(ResolutionError(ret.e.reason, Top.node.keypath))
              ELSE ret
    /\ stack' = Pop
    /\ resolved' = [resolved EXCEPT ![Top.node.keypath] = UNDISCOVERED]
    /\ UNCHANGED <<inputs, registry, culprit, order, pc, parsers, root, outcome,
                   parser_calls, calls, prev, reads>>

\* _LeafNode._safely: an exceptions.Error raised by fn is raised again as a
\* ResolutionError with the keypath of this leaf; any other exception passes
_LeafNode__safely ==
    /\ pc = "resolve" /\ stack # <<>>
    /\ steps' = steps + 1
    /\ Top.node.k = "leaf" /\ Top.st = "wait"
    /\ ret.t = "exc"
    /\ ret' = IF ret.e.cls \in ErrorClasses
              THEN Exc(ResolutionError(ret.e.reason, Top.node.keypath))
              ELSE ret
    /\ stack' = Pop
    /\ UNCHANGED <<inputs, registry, culprit, order, pc, parsers, root, resolved, outcome,
                   parser_calls, calls, prev, reads>>

\* an exception leaves the .resolve() of a dict or list node, which catches none
propagate ==
    /\ pc = "resolve" /\ stack # <<>>
    /\ steps' = steps + 1
    /\ Top.node.k \in {"dictnode", "listnode"}
    /\ ret.t = "exc"
    /\ stack' = Pop
    /\ UNCHANGED <<inputs, registry, culprit, order, pc, parsers, root, resolved, ret, outcome,
                   parser_calls, calls, prev, reads>>

\* root.resolve() returns or raises, and so does resolve() (line 110)
resolve_return ==
    /\ pc = "resolve" /\ stack = <<>>
    /\ UNCHANGED steps
    /\ outcome' = ret
    /\ ret' = NoRet
    /\ pc' = "done"
    /\ UNCHANGED <<inputs, registry, culprit, order, parsers, root, resolved, stack, parser_calls,
                   calls, prev, reads>>

\* raw with the defaults of sch written in where an optional key is absent
RECURSIVE WriteDefaults(_, _)
WriteDefaults(raw, sch) ==
    IF raw.k = "dict" /\ sch.type = "dict"
    THEN LET required_keys == GetOrEmpty(sch, "required_keys")
             optional_keys == GetOrEmpty(sch, "optional_keys")
             defaulted == {key \in DOMAIN optional_keys \ DOMAIN raw.v :
                             "default" \in DOMAIN optional_keys[key]}
             written(key) ==
                 IF key \in defaulted THEN optional_keys[key].default
                 ELSE IF key \in DOMAIN required_keys
                 THEN WriteDefaults(raw.v[key], required_keys[key])
                 ELSE IF key \in DOMAIN optional_keys
                 THEN WriteDefaults(raw.v[key], optional_keys[key])
                 ELSE IF "extra_keys_schema" \in DOMAIN sch
                 THEN WriteDefaults(raw.v[key], sch.extra_keys_schema)
                 ELSE raw.v[key]
         IN DictV([key \in DOMAIN raw.v \cup defaulted |-> written(key)])
    ELSE IF raw.k = "list" /\ sch.type = "list"
    THEN ListV([i \in DOMAIN raw.v |-> WriteDefaults(raw.v[i], sch.element_schema)])
    ELSE raw

\* the raw value with the blanks inside the braces of every placeholder
\* taken out: "${ p }" becomes "${p}"
RECURSIVE Stripped(_)
Stripped(raw) ==
    CASE raw.k = "str" ->
            StrV([i \in DOMAIN raw.v |->
                    IF raw.v[i].k = "ph" THEN Ph(raw.v[i].v.path, 0, 0) ELSE raw.v[i]])
      [] raw.k = "dict" -> DictV([key \in DOMAIN raw.v |-> Stripped(raw.v[key])])
      [] raw.k = "list" -> ListV([i \in DOMAIN raw.v |-> Stripped(raw.v[i])])
      [] OTHER -> raw

\* the caller calls resolve() again; the tree of the call before is gone.  A
\* caller who got a value declares the keys of the dicts in another order; a
\* caller who left optional keys to their defaults writes the defaults in; a
\* caller who wrote blanks inside the braces of a placeholder takes them out; a
\* caller who overrode parsers leaves the overrides out; a caller passes the
\* same arguments once more.  The module, and with it DEFAULT_PARSERS, stays
\* loaded from one call to the next
call_again ==
    /\ pc = "done" /\ calls < MaxCalls
    /\ \/ /\ plan = "permuted" /\ outcome.t = "value"
          /\ order' \in Perms(Keys)
          /\ UNCHANGED <<raw_cfg, override_parsers>>
       \/ /\ plan = "defaults_written"
          /\ raw_cfg' = WriteDefaults(raw_cfg, schema)
          /\ raw_cfg' # raw_cfg
          /\ UNCHANGED <<order, override_parsers>>
       \/ /\ plan = "stripped"
          /\ raw_cfg' = Stripped(raw_cfg)
          /\ raw_cfg' # raw_cfg
          /\ UNCHANGED <<order, override_parsers>>
       \/ /\ plan = "without_overrides"
          /\ override_parsers # NoArg
          /\ override_parsers' = NoArg
          /\ UNCHANGED <<order, raw_cfg>>
       \/ /\ plan = "same"
          /\ UNCHANGED <<order, raw_cfg, override_parsers>>
    /\ calls' = calls + 1
    /\ prev' = outcome
    /\ pc' = "call"
    /\ parsers' = EmptyDict
    /\ root' = NoTree
    /\ resolved' = EmptyDict
    /\ stack' = <<>>
    /\ ret' = NoRet
    /\ outcome' = NoRet
    /\ parser_calls' = EmptyDict
    /\ reads' = EmptyDict
    /\ steps' = 0
    /\ culprit' = <<>>
    /\ UNCHANGED <<schema, external_variables, schema_validator, plan, registry>>

Next ==
    \/ resolve
    \/ build
    \/ _DictNode_resolve
    \/ _ListNode_resolve
    \/ _LeafNode_resolve
    \/ _Resolver_interpolate
    \/ _Resolver_interpolate_sub
    \/ _Resolver_parse_call
    \/ _LeafNode__safely
    \/ propagate
    \/ resolve_return
    \/ call_again

Spec == Init /\ [][Next]_vars

SpecBuild == InitBuild /\ [][Next]_vars

SpecArgs == InitArgs /\ [][Next]_vars

SpecShape == InitShape /\ [][Next]_vars

SpecFrame == InitFrame /\ [][Next]_vars

(***************************************************************************)
(* What the properties speak about.                                        *)
(***************************************************************************)
\* the leaves of a tree
RECURSIVE LeafNodes(_)
LeafNodes(node) ==
    CASE node.k = "leaf" -> {node}
      [] node.k = "dictnode" ->
            UNION {LeafNodes(node.children[key]) : key \in DOMAIN node.children}
      [] node.k = "listnode" ->
            UNION {LeafNodes(node.children[i]) : i \in DOMAIN node.children}

\* the leaves that the self-rooted placeholders of a leaf make it read
RefTargets(leaf) ==
    LET refs == references(leaf.raw)
        target(i) == _get_path(root, Tail(_explode_dotted_path_string(refs[i])))
    IN UNION {LeafNodes(target(i).val) :
                i \in {j \in DOMAIN refs :
                         /\ _explode_dotted_path_string(refs[j])[1] = Key("self")
                         /\ target(j).ok}}

\* the leaves read, directly or through other leaves, by the leaves in S
RECURSIVE ReadBy(_, _)
ReadBy(S, n) ==
    IF n = 0 THEN S
    ELSE ReadBy(S \cup UNION {RefTargets(leaf) : leaf \in S}, n - 1)

OnCycle(leaf) == leaf \in ReadBy(RefTargets(leaf), Cardinality(LeafNodes(root)))

\* the tree is built and some of its leaves form a reference cycle
HasCycle == root # NoTree /\ \E leaf \in LeafNodes(root) : OnCycle(leaf)

IsCircular(o) ==
    o.t = "exc" /\ o.e.cls = "ResolutionError" /\ o.e.reason = "Circular reference"

\* the text of a leaf with a number in the place of every placeholder
Skeleton(raw) ==
    IF raw.k # "str" THEN raw
    ELSE StrV([i \in DOMAIN raw.v |-> IF raw.v[i].k = "ph" THEN Num(1) ELSE raw.v[i]])

\* nothing but a cycle can fail: every placeholder of every leaf names a leaf
\* of the tree, and every leaf has a parser that accepts sums of numbers where
\* the leaf's text is one
OnlyCyclesCanFail ==
    \A leaf \in LeafNodes(root) :
        /\ \A i \in DOMAIN references(leaf.raw) :
              LET path == _explode_dotted_path_string(references(leaf.raw)[i])
                  r == _get_path(root, Tail(path))
              IN path[1] = Key("self") /\ r.ok /\ r.val.k = "leaf"
        /\ _Resolver_parse(parsers, Skeleton(leaf.raw), leaf.type_).ok

\* the nodes of a tree
RECURSIVE Nodes(_)
Nodes(node) ==
    CASE node.k = "leaf" -> {node}
      [] node.k = "dictnode" ->
            {node} \cup UNION {Nodes(node.children[key]) : key \in DOMAIN node.children}
      [] node.k = "listnode" ->
            {node} \cup UNION {Nodes(node.children[i]) : i \in DOMAIN node.children}

\* the number of placeholders in the leaves of S
RECURSIVE Placeholders(_)
Placeholders(S) ==
    IF S = {} THEN 0
    ELSE LET leaf == CHOOSE x \in S : TRUE
         IN Len(references(leaf.raw)) + Placeholders(S \ {leaf})

\* a bound on the steps of root.resolve(): the walk and every placeholder
\* visit each node at most once, a visit taking no more than a call, a
\* return, the taking of the value and, if it fails, an unwinding step
StepBound ==
    LET n == Placeholders(LeafNodes(root))
    IN (n + 1) * (4 * Cardinality(Nodes(root))) + 2 * n

\* C1 as stated: a configuration with a reference cycle always fails with the
\* circular-reference error.  Refuted: an error raised before the walk comes
\* back to a Pending leaf is the one the caller gets.
C1_AlwaysCircular == (pc = "done" /\ HasCycle) => IsCircular(outcome)

\* C1: when some leaves of the configuration form a reference cycle, resolve()
\* terminates (it can always take a step until it is done, and takes no more
\* than StepBound steps) and never returns a value: it raises, and what it
\* raises is the circular-reference ResolutionError whenever the cycle is the
\* only thing that can fail (every placeholder names a leaf and every parser
\* accepts).
C1_CycleFails ==
    HasCycle =>
        /\ steps <= StepBound
        /\ pc = "resolve" => ENABLED Next
        /\ pc = "done" =>
              /\ outcome.t = "exc"
              /\ OnlyCyclesCanFail => IsCircular(outcome)

\* a resolve() that failed on a cycle of three leaves
C1_Witness ==
    /\ pc = "done" /\ HasCycle /\ OnlyCyclesCanFail /\ IsCircular(outcome)
    /\ \A leaf \in LeafNodes(root) : OnCycle(leaf) /\ Cardinality(RefTargets(leaf)) = 1
    /\ Cardinality(LeafNodes(root)) = 3

\* C2: within one call of resolve() the parser of a leaf runs at most once,
\* and every read of the leaf, by the walk or through a placeholder, returns
\* the same value, which is the one in the leaf's cell.
C2_ParsedOnce ==
    \A kp \in DOMAIN reads :
        /\ parser_calls[kp] <= 1
        /\ \A i \in DOMAIN reads[kp] : resolved[kp] = Resolved(reads[kp][i])

\* the bottom of the diamond was read through two placeholders and by the walk
C2_Witness ==
    /\ pc = "done" /\ outcome.t = "value"
    /\ \E kp \in DOMAIN reads : Len(reads[kp]) >= 3 /\ parser_calls[kp] = 1
    /\ Cardinality(DOMAIN reads) = 4

\* C3: a resolve() that returned a value returns the same value when the keys
\* of the dicts are declared in another order.
C3_OrderIndependent ==
    (calls > 1 /\ pc = "done") => outcome = prev

\* a second call with the keys in the opposite order, over leaves that refer
\* to one another
C3_Witness ==
    /\ calls > 1 /\ pc = "done" /\ outcome.t = "value"
    /\ order = <<"c", "b", "a">>
    /\ \E leaf \in LeafNodes(root) : Cardinality(RefTargets(leaf)) = 2

\* what the placeholder ph is replaced by, given the value cfg of the whole
\* configuration
Substitution(ph, cfg) ==
    LET exploded_path == _explode_dotted_path_string(Captured(ph))
    IN IF exploded_path[1] = Key("self")
       THEN PyStr(_get_path(cfg, Tail(exploded_path)).val)
       ELSE PyStr(_get_path(ExternalVariables, exploded_path).val)

\* the text toks with every placeholder replaced
RECURSIVE Interpolated(_, _)
Interpolated(toks, cfg) ==
    IF toks = <<>> THEN <<>>
    ELSE (IF Head(toks).k = "ph" THEN Substitution(Head(toks), cfg) ELSE <<Head(toks)>>)
             \o Interpolated(Tail(toks), cfg)

IsNullable(sch) == "nullable" \in DOMAIN sch /\ sch.nullable

\* the schema a dict or a list is built with: "any" stands for a container
\* of anything
EffectiveSchema(raw, sch) ==
    IF sch.type # "any" THEN sch
    ELSE IF raw.k = "dict" THEN AnyDictSchema
    ELSE IF raw.k = "list" THEN AnyListSchema
    ELSE sch

\* the sequences of seqs one after the other
RECURSIVE Flatten(_)
Flatten(seqs) == IF seqs = <<>> THEN <<>> ELSE Head(seqs) \o Flatten(Tail(seqs))

\* the keys of the raw dict dct that its schema does not list
Unlisted(dct, ds) ==
    DOMAIN dct \ (DOMAIN GetOrEmpty(ds, "required_keys")
                      \cup DOMAIN GetOrEmpty(ds, "optional_keys"))

\* the optional keys absent from dct that have a default
Defaulted(dct, ds) ==
    {key \in DOMAIN GetOrEmpty(ds, "optional_keys") \ DOMAIN dct :
        "default" \in DOMAIN ds.optional_keys[key]}

\* the keys of dct and the defaulted keys that the schema has a schema for
Schemed(dct, ds) ==
    (DOMAIN dct \cup Defaulted(dct, ds))
        \ (IF "extra_keys_schema" \in DOMAIN ds THEN {} ELSE Unlisted(dct, ds))

\* the value and the schema of the key of a dict at a position
ValueOf(dct, ds, key) ==
    IF key \in DOMAIN dct THEN dct[key] ELSE ds.optional_keys[key].default

SchemaOf(ds, key) ==
    IF key \in DOMAIN GetOrEmpty(ds, "required_keys") THEN ds.required_keys[key]
    ELSE IF key \in DOMAIN GetOrEmpty(ds, "optional_keys") THEN ds.optional_keys[key]
    ELSE ds.extra_keys_schema

\* the defects of raw under sch that make the building of the tree fail, as
\* the errors they raise, in the order in which the tree is built: the
\* required keys of a dict, its optional keys, then the keys it does not list
RECURSIVE Defects(_, _, _, _)
Defects(raw, sch, keypath, ord) ==
    IF raw.k = "none"
    THEN IF IsNullable(sch) THEN <<>>
         ELSE <<ResolutionError("Unexpectedly null.", keypath)>>
    ELSE IF raw.k = "dict"
    THEN LET dct == raw.v
             ds == EffectiveSchema(raw, sch)
             required == Restrict(ord, DOMAIN GetOrEmpty(ds, "required_keys"))
             optional == Restrict(ord, DOMAIN GetOrEmpty(ds, "optional_keys"))
             extra == Restrict(ord, Unlisted(dct, ds))
             below(key) ==
                 Defects(ValueOf(dct, ds, key), SchemaOf(ds, key),
                         Append(keypath, Key(key)), ord)
             of_required(key) ==
                 IF key \in DOMAIN dct THEN below(key)
                 ELSE <<ResolutionError("Missing required key.",
                                        Append(keypath, Key(key)))>>
             of_optional(key) ==
                 IF key \in DOMAIN dct \cup Defaulted(dct, ds) THEN below(key) ELSE <<>>
         IN Flatten([i \in DOMAIN required |-> of_required(required[i])])
                \o Flatten([i \in DOMAIN optional |-> of_optional(optional[i])])
                \o (IF extra = <<>> THEN <<>>
                    ELSE IF "extra_keys_schema" \in DOMAIN ds
                    THEN Flatten([i \in DOMAIN extra |-> below(extra[i])])
                    ELSE <<ResolutionError("Unexpected extra key.",
                                           Append(keypath, AnyOf(Unlisted(dct, ds))))>>)
    ELSE IF raw.k = "list"
    THEN LET ls == EffectiveSchema(raw, sch)
         IN Flatten([i \in DOMAIN raw.v |->
                        Defects(raw.v[i], ls.element_schema,
                                Append(keypath, Idx(i - 1)), ord)])
    ELSE <<>>

BuildDefects == Defects(raw_cfg, schema, <<>>, order)

\* the positions of raw under sch: the keypath, the raw value (the default,
\* for an optional key left to it) and the schema of every value
RECURSIVE Positions(_, _, _)
Positions(raw, sch, keypath) ==
    LET es == EffectiveSchema(raw, sch)
        here == {[keypath |-> keypath, raw |-> raw, sch |-> es]}
    IN IF raw.k = "dict"
       THEN here \cup UNION {Positions(ValueOf(raw.v, es, key), SchemaOf(es, key),
                                       Append(keypath, Key(key))) :
                               key \in Schemed(raw.v, es)}
       ELSE IF raw.k = "list"
       THEN here \cup UNION {Positions(raw.v[i], es.element_schema,
                                       Append(keypath, Idx(i - 1))) :
                               i \in DOMAIN raw.v}
       ELSE here

\* the value or node at keypath in obj
At(obj, keypath) == IF keypath = <<>> THEN obj ELSE _get_path(obj, keypath).val

\* what the leaf with the raw value raw and the type type_ resolves to when
\* the configuration resolves to cfg
Expected(raw, type_, cfg) ==
    ApplyParser(parsers[type_],
                IF raw.k = "str" THEN StrV(Interpolated(raw.v, cfg)) ELSE raw).val

Failed == pc = "done" /\ outcome.t = "exc"
Succeeded == pc = "done" /\ outcome.t = "value"

IsMissingKey(e) == e.cls = "ResolutionError" /\ e.reason = "Missing required key."
IsExtraKey(e) == e.cls = "ResolutionError" /\ e.reason = "Unexpected extra key."
IsNull(e) == e.cls = "ResolutionError" /\ e.reason = "Unexpectedly null."

\* the tree is not built and resolve() has raised a ResolutionError
FailedInBuild == Failed /\ outcome.e.cls = "ResolutionError" /\ root = NoTree

\* C5 as stated: every required key K absent from the raw mapping at P makes
\* resolve() fail with the ResolutionError of keypath P + K.  Refuted: of two
\* defects only the one built first is reported.
C5_AsStated ==
    pc = "done" =>
        \A i \in DOMAIN BuildDefects :
            IsMissingKey(BuildDefects[i]) => outcome = Exc(BuildDefects[i])

\* C5: a required key K absent from the raw mapping at keypath P makes
\* resolve() fail, while the tree is built, with a ResolutionError; at any
\* depth its keypath is P followed by K (a list index being an integer) when
\* the absence of K is the first defect in the order the tree is built in.
C5_MissingRequiredKey ==
    pc = "done" =>
        /\ (\E i \in DOMAIN BuildDefects : IsMissingKey(BuildDefects[i])) => FailedInBuild
        /\ (BuildDefects # <<>> /\ IsMissingKey(Head(BuildDefects))) =>
               outcome = Exc(Head(BuildDefects))

\* the key b of the dict in a list is missing, and the None of the optional
\* key after it goes unreported
C5_Witness ==
    /\ pc = "done" /\ Len(BuildDefects) = 2
    /\ outcome = Exc(ResolutionError("Missing required key.", <<Idx(0), Key("b")>>))
    /\ IsNull(BuildDefects[2])

\* the keys that a raw dict has and its schema does not list are in the tree
\* under the extra_keys_schema, and in the result with the value they resolve to
ExtraKeysBuilt ==
    \A p \in Positions(raw_cfg, schema, <<>>) :
        (p.raw.k = "dict" /\ "extra_keys_schema" \in DOMAIN p.sch) =>
            \A key \in Unlisted(p.raw.v, p.sch) :
                LET keypath == Append(p.keypath, Key(key))
                IN /\ root # NoTree =>
                         /\ key \in DOMAIN At(root, p.keypath).children
                         /\ At(root, keypath).k = "leaf" =>
                               At(root, keypath).type_
                                   = IF p.raw.v[key].k = "none" THEN "any"
                                     ELSE p.sch.extra_keys_schema.type
                   /\ Succeeded =>
                         /\ key \in DOMAIN At(outcome.v, p.keypath).v
                         /\ p.raw.v[key].k \in {"int", "str"} =>
                               At(outcome.v, keypath)
                                   = Expected(p.raw.v[key], p.sch.extra_keys_schema.type,
                                              outcome.v)

\* C6 as stated: a raw key that the schema does not list makes resolve() fail
\* with a ResolutionError naming one such key when there is no
\* extra_keys_schema, and is built under the extra_keys_schema when there is
\* one.  Refuted: a defect built before is reported in its place.
C6_AsStated ==
    /\ pc = "done" =>
          \A i \in DOMAIN BuildDefects :
              IsExtraKey(BuildDefects[i]) => outcome = Exc(BuildDefects[i])
    /\ ExtraKeysBuilt

\* C6: raw keys that a dict schema without extra_keys_schema does not list
\* make resolve() fail, while the tree is built, with a ResolutionError; it
\* names one of these keys (its keypath is the dict's followed by one of
\* them) when they are the first defect in the order the tree is built in.
\* With an extra_keys_schema every such key is built under it and is in the
\* result.
C6_ExtraKeys ==
    /\ pc = "done" =>
          /\ (\E i \in DOMAIN BuildDefects : IsExtraKey(BuildDefects[i])) => FailedInBuild
          /\ (BuildDefects # <<>> /\ IsExtraKey(Head(BuildDefects))) =>
                 outcome = Exc(Head(BuildDefects))
    /\ ExtraKeysBuilt

\* the dict under c has the two keys a and b, lists none, and one is named
C6_Witness ==
    /\ pc = "done"
    /\ outcome = Exc(ResolutionError("Unexpected extra key.",
                                     <<Key("c"), AnyOf({"a", "b"})>>))

\* C7: an optional key absent from the raw mapping whose schema has a default
\* resolves as if the default had been written in the raw mapping (the call
\* with the defaults written in has the same outcome), and a value in the raw
\* mapping is used instead of the default.
C7_Defaults ==
    /\ (calls > 1 /\ plan = "defaults_written" /\ pc = "done") => outcome = prev
    /\ Succeeded =>
          \A p \in Positions(raw_cfg, schema, <<>>) :
              p.raw.k = "dict" =>
                  \A key \in DOMAIN GetOrEmpty(p.sch, "optional_keys") :
                      LET given == ValueOf(p.raw.v, p.sch, key)
                      IN (key \in DOMAIN p.raw.v \cup Defaulted(p.raw.v, p.sch)
                              /\ given.k \in {"int", "str"}) =>
                             /\ key \in DOMAIN At(outcome.v, p.keypath).v
                             /\ At(outcome.v, Append(p.keypath, Key(key)))
                                    = Expected(given, p.sch.optional_keys[key].type,
                                               outcome.v)

\* the default "1 + 1" of b was written in for the second call and b is 2 as
\* before, and a is the 1 of the raw mapping, not its default
C7_Witness ==
    /\ calls > 1 /\ plan = "defaults_written" /\ Succeeded /\ prev = outcome
    /\ raw_cfg = DictV([c |-> DictV([a |-> IntV(1), b |-> StrV(<<Num(1), Plus, Num(1)>>)])])
    /\ DOMAIN GetOrEmpty(schema.required_keys["c"], "optional_keys") = {"a", "b"}
    /\ "default" \in DOMAIN schema.required_keys["c"].optional_keys["a"]
    /\ outcome.v = DictV([c |-> DictV([a |-> IntV(1), b |-> IntV(2)])])

\* C8: on success the keys of every resolved mapping are the keys of the raw
\* mapping and the absent optional keys that have a default, and so are the
\* keys of the dict node in the tree.
C8_KeySet ==
    Succeeded =>
        \A p \in Positions(raw_cfg, schema, <<>>) :
            p.raw.k = "dict" =>
                LET keys == DOMAIN p.raw.v \cup Defaulted(p.raw.v, p.sch)
                IN /\ DOMAIN At(outcome.v, p.keypath).v = keys
                   /\ DOMAIN At(root, p.keypath).children = keys

\* a is optional without a default and absent, b is left to its default, and
\* the dict in the list resolves to b alone
C8_Witness ==
    /\ calls = 1 /\ Succeeded
    /\ raw_cfg = ListV(<<DictV(EmptyDict)>>)
    /\ schema.type = "list" /\ "optional_keys" \in DOMAIN schema.element_schema
    /\ DOMAIN schema.element_schema.optional_keys = {"a", "b"}
    /\ "default" \notin DOMAIN schema.element_schema.optional_keys["a"]
    /\ outcome.v = ListV(<<DictV([b |-> IntV(2)])>>)

\* the positions that hold None under a schema that says nullable
NullablePositions ==
    {p \in Positions(raw_cfg, schema, <<>>) : p.raw.k = "none" /\ IsNullable(p.sch)}

\* C9: a None at a position whose schema is nullable resolves to None and no
\* parser is invoked for it, whatever the parsers are.
C9_NullNotParsed ==
    \A p \in NullablePositions :
        /\ root # NoTree => parser_calls[p.keypath] = 0
        /\ Succeeded => At(outcome.v, p.keypath) = None

\* C10 as stated: every None at a position whose schema is not nullable makes
\* resolve() fail while the tree is built, with the ResolutionError of that
\* position's keypath.  Refuted: of two defects only the one built first is
\* reported.
C10_AsStated ==
    pc = "done" =>
        \A i \in DOMAIN BuildDefects :
            IsNull(BuildDefects[i]) => outcome = Exc(BuildDefects[i]) /\ root = NoTree

\* C10: a None at a position whose schema (dict, list, leaf or "any") does
\* not say nullable, or says nullable false, makes resolve() fail while the
\* tree is built, with a ResolutionError; its keypath is the position's when
\* the None is the first defect in the order the tree is built in.
C10_UnexpectedlyNull ==
    pc = "done" =>
        /\ (\E i \in DOMAIN BuildDefects : IsNull(BuildDefects[i])) => FailedInBuild
        /\ (BuildDefects # <<>> /\ IsNull(Head(BuildDefects))) =>
               outcome = Exc(Head(BuildDefects))

\* the second element of a list of "any" with nullable false is None
C10_Witness ==
    /\ pc = "done"
    /\ schema = [type |-> "list", element_schema |-> [type |-> "any", nullable |-> FALSE]]
    /\ outcome = Exc(ResolutionError("Unexpectedly null.", <<Idx(1)>>))
    /\ root = NoTree

(***************************************************************************)
(* The arguments of resolve().                                             *)
(***************************************************************************)
\* external_variables has an entry under "self"
ReservedKey == external_variables # NoArg /\ "self" \in DOMAIN external_variables.v

\* the exception of lines 96-98
IsReservedKeyError(o) == o.t = "exc" /\ o.e.cls = "ValueError" /\ o.e.reason = "reserved"

\* no node has been built and no parser has run
NothingBuilt == root = NoTree /\ stack = <<>> /\ parser_calls = EmptyDict

\* C11: when external_variables has an entry under "self", resolve() raises
\* the reserved-key exception at once, whatever the raw configuration and the
\* schema are (also a malformed schema): no node is built, no parser runs
C11_ReservedKey ==
    ReservedKey =>
        /\ pc \in {"call", "done"}
        /\ NothingBuilt /\ parsers = EmptyDict
        /\ pc = "done" => IsReservedKeyError(outcome)

\* the reserved key with a malformed schema and a raw configuration that
\* could not be resolved
C11_Witness ==
    /\ pc = "done" /\ ReservedKey /\ IsReservedKeyError(outcome)
    /\ schema \in MalformedSchemas
    /\ schema_validator = DefaultValidator
    /\ "b" \notin DOMAIN raw_cfg.v

IsSchemaError(o) == o.t = "exc" /\ o.e.cls = "InvalidSchemaError"

BuiltinTypeNames == {"integer", "float", "string", "boolean", "date", "datetime", "any"}

\* the parsers the caller passed
Overrides == IF override_parsers = NoArg THEN EmptyDict ELSE override_parsers.v

\* the parser that is to be applied to a leaf of the type type_
ParserFor(type_) ==
    IF type_ \in DOMAIN Overrides THEN Overrides[type_] ELSE DEFAULT_PARSERS[type_]

\* C13: the registry holds the caller's parser for every type name in
\* override_parsers and the default parser for every other built-in type name
\* (integer, float, string, boolean, date, datetime, any), and nothing else;
\* an override may name a type without a default.  Every leaf that has been
\* resolved holds what that parser makes of its interpolated raw value
C13_Overrides ==
    parsers # EmptyDict =>
        /\ DOMAIN parsers = BuiltinTypeNames \cup DOMAIN Overrides
        /\ \A type_ \in DOMAIN parsers : parsers[type_] = ParserFor(type_)
        /\ Succeeded =>
               \A leaf \in LeafNodes(root) :
                   leaf.raw.k # "none" =>
                       At(outcome.v, leaf.keypath)
                           = ApplyParser(ParserFor(leaf.type_),
                                         IF leaf.raw.k = "str"
                                         THEN StrV(Interpolated(leaf.raw.v, outcome.v))
                                         ELSE leaf.raw).val

\* "any" and "color" are overridden: b, of the type color without a default,
\* is what the caller's parser makes of it, and a is parsed by the default
\* parser of integer
C13_Witness ==
    /\ Succeeded
    /\ Overrides = [any |-> "caller_zero", color |-> "caller_identity"]
    /\ schema.type = "dict" /\ DOMAIN GetOrEmpty(schema, "required_keys") = {"a", "b"}
    /\ schema.required_keys["a"] = [type |-> "integer"]
    /\ schema.required_keys["b"] = [type |-> "color"]
    /\ raw_cfg = DictV([a |-> StrV(<<Num(1), Plus, Num(1)>>), b |-> StrV(<<Iso(1)>>)])
    /\ outcome.v = DictV([a |-> IntV(2), b |-> StrV(<<Iso(1)>>)])

\* the schema is well-formed and resolve() gets as far as building the tree
WellFormedCall == ~ReservedKey /\ validate_schema(schema, order).ok

\* the leaves of the raw configuration that are not None and whose type has
\* neither a default parser nor a parser of the caller
LeavesWithoutParser ==
    {p \in Positions(raw_cfg, schema, <<>>) :
        /\ p.raw.k \notin {"dict", "list", "none"}
        /\ p.sch.type \notin BuiltinTypeNames \cup DOMAIN Overrides}

IsNoParser(e) == e.cls = "ResolutionError" /\ e.reason = "No parser for type"

\* C14 as it is stated: a leaf that is not None and whose type has no parser
\* makes resolve() fail with the ResolutionError "No parser for type" at the
\* keypath of that leaf
C14_AsStated ==
    (pc = "done" /\ WellFormedCall) =>
        \A p \in LeavesWithoutParser :
            /\ outcome.t = "exc"
            /\ IsNoParser(outcome.e)
            /\ outcome.e.keypath = p.keypath

\* the leaf of the tree at keypath
LeafAt(keypath) == CHOOSE leaf \in LeafNodes(root) : leaf.keypath = keypath

\* the parser of a leaf raised on the interpolated string of the leaf
ParserRejected(b) == b.why = "parser" /\ LeafAt(b.keypath).raw.k = "str"

\* C15 as it is stated: when the parser of a leaf rejects the interpolated
\* string, resolve() fails with a ResolutionError at the keypath of that leaf
C15_AsStated ==
    (pc = "done" /\ culprit # <<>> /\ ParserRejected(culprit[1])) =>
        /\ outcome.t = "exc"
        /\ outcome.e.cls = "ResolutionError"
        /\ outcome.e.keypath = culprit[1].keypath

\* a placeholder of the leaf met a key that external_variables does not have
ExternalKeyMissing(b) == b.why = "external" /\ b.lookup = "KeyError"

\* C16 as it is stated: when a key of the path of a placeholder is missing in
\* external_variables, resolve() fails with a ResolutionError at the keypath of
\* the leaf that contains the placeholder
C16_AsStated ==
    (pc = "done" /\ culprit # <<>> /\ ExternalKeyMissing(culprit[1])) =>
        /\ outcome.t = "exc"
        /\ outcome.e.cls = "ResolutionError"
        /\ outcome.e.keypath = culprit[1].keypath

\* the path of a self-rooted placeholder of the leaf met a component that the
\* tree does not have
SelfComponentMissing(b) == b.why = "self"

\* resolve() failed with the error of an unresolvable reference
IsUnresolvableReference(e) == e.cls = "ResolutionError" /\ e.reason = "Cannot resolve"

\* C17 as it is stated: when the path of a self-rooted placeholder meets a
\* missing component (a dict key, a list index past the end, a step below a
\* leaf, nothing after self), resolve() fails with the error of an
\* unresolvable reference
C17_AsStated ==
    (pc = "done" /\ culprit # <<>> /\ SelfComponentMissing(culprit[1])) =>
        /\ outcome.t = "exc"
        /\ IsUnresolvableReference(outcome.e)

\* C18 as it is stated: when resolve() fails because of a leaf, it fails with
\* a ResolutionError whose keypath is the keypath of that leaf, however the
\* leaf was reached
C18_AsStated ==
    (pc = "done" /\ culprit # <<>>) =>
        /\ outcome.t = "exc"
        /\ outcome.e.cls = "ResolutionError"
        /\ outcome.e.keypath = culprit[1].keypath

\* the root configuration is a list under a list schema
ListAtRoot == WellFormedCall /\ schema.type = "list" /\ raw_cfg.k = "list"

\* C19 as it is stated: a list resolves to a list of the same length, and an
\* error inside element i carries the integer i as the segment of its keypath
C19_AsStated ==
    (pc = "done" /\ ListAtRoot) =>
        IF culprit = <<>>
        THEN outcome.t = "value" =>
                outcome.v.k = "list" /\ Len(outcome.v.v) = Len(raw_cfg.v)
        ELSE /\ outcome.t = "exc"
             /\ outcome.e.cls = "ResolutionError"
             /\ outcome.e.keypath # <<>>
             /\ outcome.e.keypath[1] = culprit[1].keypath[1]

\* the schema is the wildcard and the raw configuration is not None
Wildcard == WellFormedCall /\ schema = [type |-> "any"] /\ raw_cfg # None

\* whether a string of the raw value holds a placeholder
RECURSIVE HasPlaceholder(_)
HasPlaceholder(raw) ==
    CASE raw.k = "str" -> \E i \in DOMAIN raw.v : raw.v[i].k = "ph"
      [] raw.k = "dict" -> \E key \in DOMAIN raw.v : HasPlaceholder(raw.v[key])
      [] raw.k = "list" -> \E i \in DOMAIN raw.v : HasPlaceholder(raw.v[i])
      [] OTHER -> FALSE

\* whether a container of the raw value holds a None
RECURSIVE HasNoneInside(_)
HasNoneInside(raw) ==
    CASE raw.k = "dict" -> \E key \in DOMAIN raw.v :
                              raw.v[key] = None \/ HasNoneInside(raw.v[key])
      [] raw.k = "list" -> \E i \in DOMAIN raw.v :
                              raw.v[i] = None \/ HasNoneInside(raw.v[i])
      [] OTHER -> FALSE

\* C20: under the schema {"type": "any"}, a raw configuration without
\* placeholders, None inside its containers included, resolves to a value
\* equal to itself; and when a configuration with placeholders resolves,
\* each of its strings is in the result with every placeholder replaced.
C20_Wildcard ==
    (pc = "done" /\ Wildcard) =>
        /\ ~HasPlaceholder(raw_cfg) =>
                outcome.t = "value" /\ outcome.v = raw_cfg
        /\ (HasPlaceholder(raw_cfg) /\ outcome.t = "value") =>
                \A leaf \in LeafNodes(root) :
                    leaf.raw.k = "str" =>
                        At(outcome.v, leaf.keypath)
                            = StrV(Interpolated(leaf.raw.v, outcome.v))

\* a nested configuration with a None inside a container has resolved
C20_Witness ==
    /\ pc = "done" /\ Wildcard
    /\ ~HasPlaceholder(raw_cfg) /\ HasNoneInside(raw_cfg)
    /\ \E key \in {"a", "b"} :
          /\ raw_cfg.k = "dict" /\ key \in DOMAIN raw_cfg.v
          /\ raw_cfg.v[key].k \in {"dict", "list"} /\ HasNoneInside(raw_cfg.v[key])
    /\ outcome.t = "value"

\* the call before was made with blanks inside the braces of a placeholder,
\* this one with the blanks taken out
SecondCallStripped == pc = "done" /\ calls = 2 /\ plan = "stripped"

\* C21 as it is stated: when the leaf with "${p}" resolves to a value, the
\* same leaf with "${ p }" has resolved to that value, whatever the number of
\* blanks on either side of p
C21_AsStated == (SecondCallStripped /\ outcome.t = "value") => prev = outcome

\* whether somewhere in raw the shape of a value is not the one of the
\* variant of the schema at its position: a mapping not under a dict schema,
\* a sequence not under a list schema, a scalar under a dict or list schema
RECURSIVE Mismatched(_, _)
Mismatched(raw, sch) ==
    IF raw.k = "none" \/ sch.type = "any" THEN FALSE
    ELSE IF raw.k = "dict"
    THEN \/ sch.type # "dict"
         \/ \E key \in DOMAIN raw.v \cap DOMAIN GetOrEmpty(sch, "required_keys") :
               Mismatched(raw.v[key], sch.required_keys[key])
    ELSE IF raw.k = "list"
    THEN \/ sch.type # "list"
         \/ \E i \in DOMAIN raw.v : Mismatched(raw.v[i], sch.element_schema)
    ELSE sch.type \in {"dict", "list"}

\* C22 as it is stated: when the shape of a raw value does not match the
\* variant of the schema at its position, resolve() fails with a
\* ResolutionError and returns no value, an empty mapping or sequence included
C22_AsStated ==
    (pc = "done" /\ WellFormedCall /\ Mismatched(raw_cfg, schema)) =>
        outcome.t = "exc" /\ outcome.e.cls = "ResolutionError"

\* the key maps and the schemas below the schema node sch
KeyMap(sch, which) ==
    IF which \in DOMAIN sch /\ IsDict(sch[which]) THEN sch[which] ELSE EmptyDict

SubSchemas(sch) ==
    {KeyMap(sch, "required_keys")[key] : key \in DOMAIN KeyMap(sch, "required_keys")}
    \cup {KeyMap(sch, "optional_keys")[key] : key \in DOMAIN KeyMap(sch, "optional_keys")}
    \cup {sch[which] : which \in {"extra_keys_schema", "element_schema"} \cap DOMAIN sch}

\* whether at every dict schema node of sch no key is both under
\* required_keys and under optional_keys
RECURSIVE DisjointKeys(_)
DisjointKeys(sch) ==
    IsDict(sch) =>
        /\ DOMAIN KeyMap(sch, "required_keys") \cap DOMAIN KeyMap(sch, "optional_keys") = {}
        /\ \A sub \in SubSchemas(sch) : DisjointKeys(sub)

\* the schema validator has been called and has taken the schema
SchemaAccepted ==
    /\ pc # "call" /\ ~ReservedKey /\ schema_validator # NoArg
    /\ validate_schema(schema, order).ok

\* C23 as it is stated: in every schema the validator accepts, no key of a
\* dict schema node is both under required_keys and under optional_keys
C23_AsStated == SchemaAccepted => DisjointKeys(schema)

\* the keys a schema node of each variant may have
AllowedKeys(sch) ==
    CASE sch.type = "dict" -> {"type", "required_keys", "optional_keys",
                               "extra_keys_schema", "nullable"}
      [] sch.type = "list" -> {"type", "element_schema", "nullable"}
      [] OTHER -> {"type", "nullable"}

\* whether every schema node of sch is a mapping with a type and no key but
\* the ones of its variant, a list schema has its element_schema, and a
\* default stands only in a schema listed directly under optional_keys
RECURSIVE Conforms(_, _)
Conforms(sch, under_optional) ==
    /\ IsDict(sch)
    /\ "type" \in DOMAIN sch
    /\ DOMAIN sch \subseteq
          AllowedKeys(sch) \cup (IF under_optional THEN {"default"} ELSE {})
    /\ sch.type = "list" => "element_schema" \in DOMAIN sch
    /\ \A key \in DOMAIN KeyMap(sch, "optional_keys") :
          Conforms(sch.optional_keys[key], TRUE)
    /\ \A key \in DOMAIN KeyMap(sch, "required_keys") :
          Conforms(sch.required_keys[key], FALSE)
    /\ \A which \in {"extra_keys_schema", "element_schema"} \cap DOMAIN sch :
          Conforms(sch[which], FALSE)

\* C24 as it is stated: the validator accepts a schema only if it conforms;
\* a schema that does not is refused with the schema error
C24_AsStated ==
    (pc = "done" /\ ~ReservedKey /\ schema_validator # NoArg
        /\ ~Conforms(schema, FALSE)) =>
        outcome.t = "exc" /\ outcome.e.cls = "InvalidSchemaError"

(***************************************************************************)
(* The cell of a leaf.                                                     *)
(***************************************************************************)
\* the tree of this step is the tree of the step before: the step is one of
\* root.resolve(), not the building of a tree nor the start of another call
SameTree == root # NoTree /\ root' = root /\ DOMAIN resolved' = DOMAIN resolved

\* the moves of a cell that the leaf state machine allows
CellMove(old, new) ==
    \/ new = old
    \/ old = UNDISCOVERED /\ new = PENDING
    \/ old = PENDING /\ new.c = "resolved"

\* C25: within one call of resolve() the cell of every leaf starts
\* Undiscovered and a step changes it only from Undiscovered to Pending or
\* from Pending to Resolved(value): it never goes back to Undiscovered, a
\* Resolved cell is never Pending again and keeps its value, and a cell
\* becomes Resolved only from Pending.
C25_CellStateMachine ==
    [][/\ (pc = "build" /\ root' # NoTree) =>
             \A kp \in DOMAIN resolved' : resolved'[kp] = UNDISCOVERED
       /\ SameTree =>
             \A kp \in DOMAIN resolved : CellMove(resolved[kp], resolved'[kp])]_vars

\* a walk in which one leaf is Resolved, one is Pending and one is still
\* Undiscovered
C25_Witness ==
    /\ pc = "resolve"
    /\ \E kp1, kp2, kp3 \in DOMAIN resolved :
          /\ resolved[kp1].c = "resolved"
          /\ resolved[kp2] = PENDING
          /\ resolved[kp3] = UNDISCOVERED


\* this step is the end of a leaf's .resolve() by an exception
LeafFails ==
    /\ pc = "resolve" /\ stack # <<>> /\ Top.node.k = "leaf"
    /\ Len(stack') < Len(stack) /\ ret'.t = "exc"

\* C26: a leaf whose resolution has failed (a reference that cannot be looked
\* up, a parser that rejects, a cycle) is left Pending and has handed out no
\* value; from then on the exception only travels up: no cell changes, no
\* parser runs and no value is read, so that the leaf is never recomputed and
\* never Resolved, and an attempt to resolve it would find it Pending and
\* fail.
C26_FailureIsFinal ==
    [][/\ LeafFails =>
             /\ resolved'[Top.node.keypath] = PENDING
             /\ reads'[Top.node.keypath] = <<>>
       /\ (SameTree /\ ret.t = "exc") =>
             /\ resolved' = resolved
             /\ parser_calls' = parser_calls
             /\ reads' = reads
             /\ pc' = "resolve" => ret'.t = "exc"
       /\ \A i \in DOMAIN culprit' :
             culprit'[i].keypath \in DOMAIN resolved' =>
                /\ resolved'[culprit'[i].keypath] = PENDING
                /\ reads'[culprit'[i].keypath] = <<>>]_vars

\* a resolve() that failed in a leaf read through a placeholder: the leaf and
\* its reader are left Pending while another leaf had been Resolved before
C26_Witness ==
    /\ pc = "done" /\ outcome.t = "exc" /\ culprit # <<>>
    /\ \E kp1, kp2, kp3 \in DOMAIN resolved :
          /\ kp1 = culprit[1].keypath /\ kp2 # kp1
          /\ resolved[kp1] = PENDING /\ resolved[kp2] = PENDING
          /\ resolved[kp3].c = "resolved"


\* C27: when resolve() returns a value, the cell of every leaf of the tree is
\* Resolved, and the value returned holds at the keypath of every leaf the
\* value of its cell.
C27_AllResolved ==
    Succeeded =>
        \A leaf \in LeafNodes(root) :
            /\ resolved[leaf.keypath].c = "resolved"
            /\ \/ leaf.keypath = <<>> /\ outcome.v = resolved[leaf.keypath].v
               \/ /\ leaf.keypath # <<>>
                  /\ _get_path(outcome.v, leaf.keypath).ok
                  /\ _get_path(outcome.v, leaf.keypath).val = resolved[leaf.keypath].v

\* a value returned for a tree of at least three leaves, one of them two
\* levels down and one made of placeholders
C27_Witness ==
    /\ Succeeded
    /\ Cardinality(LeafNodes(root)) >= 3
    /\ \E leaf \in LeafNodes(root) : Len(leaf.keypath) = 2
    /\ \E leaf \in LeafNodes(root) : Len(references(leaf.raw)) >= 1


(***************************************************************************)
(* The Pending leaves and the call stack.                                  *)
(***************************************************************************)
\* the leaves whose .resolve() is past the checks of lines 378-382 and has
\* not returned, from the outermost call to the innermost
ActiveLeaves ==
    LET F[n \in 0..Len(stack)] ==
            IF n = 0 THEN <<>>
            ELSE IF stack[n].node.k = "leaf" /\ stack[n].st # "entry"
                 THEN Append(F[n - 1], stack[n].node)
                 ELSE F[n - 1]
    IN F[Len(stack)]

\* the keypaths of the leaves whose cell is Pending
PendingLeaves == {kp \in DOMAIN resolved : resolved[kp] = PENDING}

\* C28 as stated: at every point of a resolve call the Pending leaves are the
\* leaves whose resolution is active on the call stack.  Refuted: a leaf whose
\* resolution ended by an exception stays Pending while the exception travels
\* up through the nodes above it.
C28_AsStated ==
    pc = "resolve" =>
        PendingLeaves = {ActiveLeaves[j].keypath : j \in DOMAIN ActiveLeaves}

\* C28: at every point of a resolve call at which no exception has been
\* raised, the Pending leaves are the leaves whose resolution is active on
\* the call stack; these are pairwise distinct, and each one but the
\* outermost is read by a placeholder of the one below it.
C28_PendingPath ==
    (pc = "resolve" /\ ret.t # "exc") =>
        /\ PendingLeaves = {ActiveLeaves[j].keypath : j \in DOMAIN ActiveLeaves}
        /\ \A i, j \in DOMAIN ActiveLeaves :
              i # j => ActiveLeaves[i].keypath # ActiveLeaves[j].keypath
        /\ \A j \in DOMAIN ActiveLeaves :
              j > 1 => ActiveLeaves[j] \in RefTargets(ActiveLeaves[j - 1])

\* three leaves Pending at once, each read by a placeholder of the one before
C28_Witness ==
    /\ pc = "resolve" /\ ret.t # "exc"
    /\ Len(ActiveLeaves) = 3
    /\ Cardinality(PendingLeaves) = 3


(***************************************************************************)
(* What a call leaves behind.                                              *)
(***************************************************************************)
\* C29: a step of a resolve call, whether the call ends in a value or in an
\* exception, leaves raw_cfg, schema, external_variables and override_parsers
\* as they are, and DEFAULT_PARSERS holds the built-in parsers after every
\* step; so a later call without overrides works with the built-in parsers,
\* and a second call with the same arguments ends as the first.
C29_NoSideEffects ==
    [][/\ calls' = calls =>
             UNCHANGED <<raw_cfg, schema, external_variables, override_parsers>>
       /\ registry' = DEFAULT_PARSERS
       /\ (pc' = "build" /\ override_parsers' = NoArg) => parsers' = DEFAULT_PARSERS
       /\ (pc' = "done" /\ calls' > 1 /\ plan' = "same") => outcome' = prev']_vars

\* a second call without overrides after a call whose overrides decided its
\* value: the second call worked with the built-in parsers and returned
\* another value
C29_Witness ==
    /\ calls = 2 /\ pc = "done"
    /\ plan = "without_overrides" /\ override_parsers = NoArg
    /\ parsers = DEFAULT_PARSERS
    /\ prev.t = "value" /\ outcome.t = "value" /\ outcome # prev


(***************************************************************************)
(* Termination and the work of a call.                                     *)
(***************************************************************************)
\* the number of times a parser ran for one of the leaves in S
RECURSIVE ParserInvocations(_)
ParserInvocations(S) ==
    IF S = {} THEN 0
    ELSE LET kp == CHOOSE x \in S : TRUE
         IN parser_calls[kp] + ParserInvocations(S \ {kp})

\* the calls of .resolve() of the leaf at kp that are past line 384 (the leaf
\* has entered Pending) and have not returned
Entered(kp) ==
    {n \in DOMAIN stack :
        stack[n].node.k = "leaf" /\ stack[n].node.keypath = kp /\ stack[n].st # "entry"}

\* C30: resolve() terminates with a value or an exception: the checks of the
\* arguments and the building of the tree come to an end, root.resolve() can
\* take a step until it has returned, and it takes no more than StepBound
\* steps.
\* A leaf enters Pending at most once: it is never entered while it is
\* entered already, nor after it has returned a value, nor after an exception
\* was raised; so no parser has run for a leaf that is about to be parsed, and
\* the parsers run no more often than the tree has leaves.
C30_Terminates ==
    /\ pc = "call" => ENABLED resolve
    /\ pc = "build" =>
          _build_configuration_tree_node(raw_cfg, schema, <<>>, order).ok \in BOOLEAN
    /\ pc = "resolve" => ENABLED Next
    /\ pc = "done" => outcome.t \in {"value", "exc"}
    /\ root # NoTree =>
          /\ steps <= StepBound
          /\ ParserInvocations(DOMAIN parser_calls) <= Cardinality(LeafNodes(root))
          /\ \A kp \in DOMAIN resolved :
                /\ Cardinality(Entered(kp)) <= 1
                /\ Entered(kp) # {} => resolved[kp] = PENDING /\ reads[kp] = <<>>
                /\ \A n \in Entered(kp) :
                      stack[n].st = "run" => parser_calls[kp] = 0 /\ culprit = <<>>

\* a resolve() that ended after a parser had run for each of at least three
\* leaves, one of them read through two placeholders
C30_Witness ==
    /\ pc = "done" /\ root # NoTree
    /\ Cardinality(LeafNodes(root)) >= 3
    /\ ParserInvocations(DOMAIN parser_calls) = Cardinality(LeafNodes(root))
    /\ \E kp \in DOMAIN reads : Len(reads[kp]) >= 3

====
